---- MODULE Spec2Model ----
(***************************************************************************)
(* Model of the spy-game backend (src/backend/main.py and                  *)
(* src/backend/game_logic.py): the room table, the room lifecycle and turn *)
(* timer, the stale-heartbeat drop, the TTL sweep and the turn clock.      *)
(*                                                                         *)
(* Conventions                                                             *)
(*  - Python's None is None (-1) in optional numeric fields and "none" in  *)
(*    optional string fields.                                              *)
(*  - Wall-clock time (time.time(), datetime.utcnow()) is the variable     *)
(*    now, counted in ticks; TicksPerSecond ticks make one second.         *)
(*  - A dict is the sequence of its keys in insertion order (players) plus *)
(*    functions over those keys (last_seen_by_user, cards_by_user).        *)
(*  - Real callers have the integer ids of RealIds; synthetic bots have    *)
(*    the ids of BotIds (the code's "bot_<hex>" strings).                  *)
(*  - A participant's display name is identified with the participant's    *)
(*    id; owner_name holds such a name or EmptyName ("").                  *)
(*  - A handler is an operator from the room table, the clock and the      *)
(*    request to the new table and the response kind; the action applies   *)
(*    it. Random draws of the code are parameters of the operator.         *)
(***************************************************************************)
EXTENDS Integers, Sequences, FiniteSets, TLC

VARIABLES rooms, offline_sessions, all_cards, now

vars == <<rooms, offline_sessions, all_cards, now>>

(***************************** program constants ***************************)
APP_TTL_MINUTES == 60
MIN_PLAYERS == 3
MAX_PLAYERS == 12
MIN_TURN_TIME_SECONDS == 5
MAX_TURN_TIME_SECONDS == 30
DEFAULT_TURN_TIME_SECONDS == 8
HEARTBEAT_STALE_SECONDS == 20
CodeAttempts == 5

OFFLINE_STATE_REVEALING == "revealing"
TURN_STATE_WAITING == "waiting"
TURN_STATE_READY_TO_START == "ready_to_start"
TURN_STATE_ACTIVE == "turn_loop_active"
TURN_STATE_FINISHED == "finished"
ROOM_STATE_WAITING == "waiting"
ROOM_STATE_STARTED == "started"
ROOM_STATE_PAUSED == "paused"

None == -1
EmptyName == 0
NoCard == "none"
NoMessage == "none"

\* Environment configuration: DEV_TOOLS_ENABLED and DEV_ADMIN_IDS.
DEV_TOOLS_ENABLED == TRUE
DEV_ADMIN_IDS == {1}

(********************************* bounds **********************************)
\* Clock resolution: ticks per second.
TicksPerSecond == 10
\* How many times the clock of the room specification ticks.
MaxTicks == 1

(***************************** finite universes ****************************)
RealIds == {1, 2, 3}
\* The ids of the bots numbered 1..MAX_PLAYERS (see BotIdBase).
BotIds == 11..22
PlayerIds == RealIds \cup BotIds
ShortCodes == {"AAAAAA", "BBBBBB"}
LongCodes == {"CCCCCCCC"}
RoomCodes == ShortCodes \cup LongCodes
SessionIds == {"s1"}

\* Response kinds: 200, 404, 403 and the two readings of 400.
OK == "ok"
NotFound == "NotFound"
Forbidden == "Forbidden"
InvalidState == "InvalidState"
InvalidConfiguration == "InvalidConfiguration"
Errors == {NotFound, Forbidden, InvalidState, InvalidConfiguration}

(********************************* helpers *********************************)
Min(a, b) == IF a < b THEN a ELSE b
Max(a, b) == IF a > b THEN a ELSE b
Range(s) == {s[i] : i \in DOMAIN s}
Contains(s, x) == \E i \in DOMAIN s : s[i] = x
\* list.index(x), 0-based; x is in s.
IndexOf(s, x) == (CHOOSE i \in DOMAIN s : s[i] = x /\ \A j \in 1..(i - 1) : s[j] # x) - 1
\* The list without its (0-based) position k: list.pop(k).
PopAt(s, k) == [i \in 1..(Len(s) - 1) |-> IF i <= k THEN s[i] ELSE s[i + 1]]
\* [x for x in s if x != v]; dict key removal keeps the order of the rest.
Without(s, v) == SelectSeq(s, LAMBDA x : x # v)
Restrict(f, S) == [x \in (DOMAIN f) \cap S |-> f[x]]
Seconds(n) == n * TicksPerSecond
Minutes(n) == n * 60 * TicksPerSecond

\* isinstance(player_id, int): real callers; bots carry string ids.
IsRealId(p) == p \in RealIds
\* entry["is_bot"]
EntryIsBot(p) == p \in BotIds
\* entry["display_name"], identified with the id.
DisplayName(p) == p

NoRoom == [state |-> "absent"]
Live(rs) == {c \in DOMAIN rs : rs[c] # NoRoom}

RealRoomPlayerIds(r) == SelectSeq(r.players, IsRealId)

ClampTurnIndex(current_turn_index, total_players) ==
    IF total_players <= 0 THEN 0
    ELSE Max(0, Min(current_turn_index, total_players - 1))

EnsureRoomPlayersOrder(r) ==
    IF r.players_order # <<>> THEN r
    ELSE IF r.players # <<>>
         THEN [r EXCEPT !.players_order = r.players, !.current_turn_index = 0]
         ELSE [r EXCEPT !.players_order = <<>>, !.current_turn_index = 0]

SetRoomStatusMessage(r, message) == [r EXCEPT !.last_status_message = message]

TouchRoomUser(r, user_id, t) ==
    IF Contains(r.players, user_id)
    THEN [r EXCEPT !.last_seen_by_user =
            [u \in (DOMAIN r.last_seen_by_user) \cup {user_id} |->
                IF u = user_id THEN t ELSE r.last_seen_by_user[u]]]
    ELSE r

\* For comparison: a removal that records its message and pauses nothing.
StatusMessageOnly(r, message) == SetRoomStatusMessage(r, message)

\* For comparison: a participant change that sends the game back to the lobby.
BackToLobbyAfterChange(r, message) ==
    SetRoomStatusMessage([r EXCEPT !.state = ROOM_STATE_WAITING,
                                   !.turn_active = FALSE,
                                   !.turn_started_at = None], message)

PauseRoomAfterParticipantChange(r, message) ==
    LET r1 == IF r.state \in {ROOM_STATE_STARTED, ROOM_STATE_PAUSED}
              THEN [r EXCEPT !.state = ROOM_STATE_PAUSED,
                             !.turn_active = FALSE,
                             !.turn_started_at = None]
              ELSE r
    IN SetRoomStatusMessage(r1, message)

\* For comparison: a removal that leaves the turn pointer where it was.
TurnIndexKept(current_turn_index, removed_index, new_len) == current_turn_index

\* For comparison: a removal that keeps the pointer unless it has to be clamped.
TurnIndexClampedOnly(current_turn_index, removed_index, new_len) ==
    ClampTurnIndex(current_turn_index, new_len)

\* The turn pointer after a seat was taken out of a non-empty turn order.
TurnIndexAfterRemoval(current_turn_index, removed_index, new_len) ==
    LET adjusted ==
            IF removed_index # None
            THEN IF removed_index < current_turn_index
                 THEN current_turn_index - 1
                 ELSE IF removed_index = current_turn_index /\ current_turn_index >= new_len
                      THEN 0
                      ELSE current_turn_index
            ELSE current_turn_index
    IN ClampTurnIndex(adjusted, new_len)

\* For comparison: a removal that forgets the turn order.
OrderKept(players_order, user_id) == players_order

\* The turn order after user_id is taken out of it.
OrderAfterRemoval(players_order, user_id) ==
    IF Contains(players_order, user_id)
    THEN PopAt(players_order, IndexOf(players_order, user_id))
    ELSE players_order

\* For comparison: an ownership that passes to the last real participant.
LastRealId(real_ids_in_order, fallback_real_ids) ==
    IF real_ids_in_order # <<>> THEN real_ids_in_order[Len(real_ids_in_order)]
    ELSE IF fallback_real_ids # <<>> THEN fallback_real_ids[Len(fallback_real_ids)]
    ELSE None

\* A removal that finds no successor for the owner.
NoNextOwner(real_ids_in_order, fallback_real_ids) == None

\* next_owner_id of remove_room_participant.
NextOwnerId(real_ids_in_order, fallback_real_ids) ==
    IF real_ids_in_order # <<>> THEN real_ids_in_order[1]
    ELSE IF fallback_real_ids # <<>> THEN fallback_real_ids[1]
    ELSE None

\* remove_room_participant; the returned flag is Contains(r.players, user_id).
RemoveRoomParticipant(r, user_id, message) ==
    IF ~Contains(r.players, user_id) THEN r
    ELSE
    LET removed_index == IF Contains(r.players_order, user_id)
                         THEN IndexOf(r.players_order, user_id) ELSE None
        \* The seat leaves the order, the roster, the heartbeats and the roles.
        Unseated(order1) ==
            [r EXCEPT
               !.players_order = order1,
               !.players = Without(r.players, user_id),
               !.last_seen_by_user = Restrict(r.last_seen_by_user, PlayerIds \ {user_id}),
               !.cards_by_user = Restrict(r.cards_by_user, PlayerIds \ {user_id}),
               !.spy_user_ids = r.spy_user_ids \ {user_id},
               !.starter_user_id =
                   IF r.starter_user_id = user_id
                   THEN (IF order1 # <<>> THEN order1[1] ELSE None)
                   ELSE r.starter_user_id]
        \* The turn pointer follows the shorter order.
        Repointed(r1) ==
            IF r1.players_order # <<>>
            THEN [r1 EXCEPT !.current_turn_index =
                      TurnIndexAfterRemoval(r.current_turn_index, removed_index,
                                            Len(r1.players_order))]
            ELSE [r1 EXCEPT !.current_turn_index = 0,
                            !.turn_active = FALSE,
                            !.turn_started_at = None,
                            !.turn_state = TURN_STATE_FINISHED,
                            !.turns_completed = TRUE]
        \* The ownership passes on when the owner left a room that is not empty.
        Reowned(r2, next_owner_id) ==
            IF r.owner_user_id = user_id /\ r2.players # <<>>
            THEN IF next_owner_id # None
                 THEN [r2 EXCEPT !.owner_user_id = next_owner_id,
                                 !.owner_name = DisplayName(next_owner_id)]
                 ELSE [r2 EXCEPT !.owner_name = EmptyName]
            ELSE r2
        Removed(r2) ==
            Reowned(r2, NextOwnerId(SelectSeq(r2.players_order, IsRealId),
                                    RealRoomPlayerIds(r2)))
    IN PauseRoomAfterParticipantChange(
           Removed(Repointed(Unseated(OrderAfterRemoval(r.players_order, user_id)))),
           message)

RECURSIVE RemoveAll(_, _, _)
\* for user_id in ids: remove_room_participant(room, user_id, message)
RemoveAll(r, ids, message) ==
    IF ids = <<>> THEN r
    ELSE RemoveAll(RemoveRoomParticipant(r, Head(ids), message), Tail(ids), message)

\* For comparison: a drop that already takes a heartbeat of exactly the horizon.
StaleFromHorizon(r, t) ==
    SelectSeq(r.players,
              LAMBDA u : u \in DOMAIN r.last_seen_by_user
                         /\ t - r.last_seen_by_user[u] >= Seconds(HEARTBEAT_STALE_SECONDS))

\* The ids drop_stale_room_players removes at time t: last_seen_by_user is filled
\* in the order of players (a key enters both dicts in the same handler), so the
\* dict is walked in roster order.
StaleUserIds(r, t) ==
    SelectSeq(r.players,
              LAMBDA u : u \in DOMAIN r.last_seen_by_user
                         /\ t - r.last_seen_by_user[u] > Seconds(HEARTBEAT_STALE_SECONDS))

\* For comparison: a stale drop that also runs in a waiting room.
DropStaleInEveryState(r, t) ==
    LET Dropped(r1) ==
            [room |-> r1,
             del |-> (Len(r1.players) = 0 \/ Len(RealRoomPlayerIds(r1)) = 0)]
    IN Dropped(RemoveAll(r, StaleUserIds(r, t), "left"))

\* drop_stale_room_players: the room afterwards and the returned "delete the room".
DropStaleRoomPlayers(r, t) ==
    IF r.state = ROOM_STATE_WAITING THEN [room |-> r, del |-> FALSE]
    ELSE LET Dropped(r1) ==
                 [room |-> r1,
                  del |-> (Len(r1.players) = 0 \/ Len(RealRoomPlayerIds(r1)) = 0)]
         IN Dropped(RemoveAll(r, StaleUserIds(r, t), "left"))

(******************************* turn clock ********************************)
\* normalize_room_turn_state: the repaired room and whether the timer is usable.
NormalizeRoomTurnState(r) ==
    IF ~r.timer_enabled
    THEN [room |-> [r EXCEPT !.turn_time_seconds = None,
                             !.turn_started_at = None,
                             !.turn_active = FALSE,
                             !.turns_completed = (r.turn_state = TURN_STATE_FINISHED)],
          ok |-> FALSE]
    ELSE LET r1 == IF r.turn_time_seconds = None
                      \/ r.turn_time_seconds < MIN_TURN_TIME_SECONDS
                      \/ r.turn_time_seconds > MAX_TURN_TIME_SECONDS
                   THEN [r EXCEPT !.turn_time_seconds = DEFAULT_TURN_TIME_SECONDS]
                   ELSE r
             Clamped(r2) ==
                 [r2 EXCEPT !.current_turn_index =
                      ClampTurnIndex(r2.current_turn_index, Len(r2.players_order))]
             Usable(r3) ==
                 IF r3.players_order = <<>>
                 THEN [room |-> [r3 EXCEPT !.turns_completed = TRUE,
                                           !.turn_active = FALSE,
                                           !.turn_state = TURN_STATE_FINISHED,
                                           !.turn_started_at = None],
                       ok |-> FALSE]
                 ELSE [room |-> r3, ok |-> TRUE]
         IN Usable(Clamped(EnsureRoomPlayersOrder(r1)))

\* The re-based start of the turn: whole periods consumed, never "now".
RebasedTurnStart(turn_started_at, steps_elapsed, period) ==
    turn_started_at + steps_elapsed * period

\* For comparison: a clock that restarts the turn at the time of the call.
AdvanceClockToNow(x, t) ==
    LET period == Seconds(x.turn_time_seconds)
        elapsed == t - x.turn_started_at
        steps_elapsed == elapsed \div period
    IN IF elapsed < period \/ steps_elapsed <= 0 THEN x
       ELSE [x EXCEPT
               !.current_turn_index =
                   (x.current_turn_index + steps_elapsed) % Len(x.players_order),
               !.turn_started_at = t]

\* For comparison: a clock that moves one seat for every read after a period.
AdvanceClockOneSeat(x, t) ==
    LET period == Seconds(x.turn_time_seconds)
    IN IF t - x.turn_started_at < period THEN x
       ELSE [x EXCEPT
               !.current_turn_index = (x.current_turn_index + 1) % Len(x.players_order),
               !.turn_started_at = x.turn_started_at + period]

\* The lines shared by advance_room_turn and advance_offline_turn: x is a room or
\* a session with a usable timer and a set turn_started_at; t is time.time().
AdvanceClock(x, t) ==
    LET period == Seconds(x.turn_time_seconds)
        elapsed == t - x.turn_started_at
        steps_elapsed == elapsed \div period
    IN IF elapsed < period \/ steps_elapsed <= 0 THEN x
       ELSE [x EXCEPT
               !.current_turn_index =
                   (x.current_turn_index + steps_elapsed) % Len(x.players_order),
               !.turn_started_at =
                   RebasedTurnStart(x.turn_started_at, steps_elapsed, period)]

\* For comparison: a read that arms the clock of an active loop again, paused or not.
AdvanceRoomTurnRearming(r, t) ==
    IF r.turn_state # TURN_STATE_ACTIVE \/ ~r.timer_enabled THEN r
    ELSE IF r.turn_started_at = None
         THEN [r EXCEPT !.turn_active = TRUE, !.turn_started_at = t]
    ELSE AdvanceClock(r, t)

AdvanceRoomTurn(r, t) ==
    IF r.state # ROOM_STATE_STARTED \/ r.turn_state # TURN_STATE_ACTIVE \/ ~r.turn_active
    THEN r
    ELSE LET Advanced(n) ==
                 IF ~n.ok THEN n.room
                 ELSE IF n.room.turn_started_at = None THEN n.room
                 ELSE AdvanceClock(n.room, t)
         IN Advanced(NormalizeRoomTurnState(r))

\* current_room_turn_user_id, for its repairs of the room.
CurrentRoomTurnRepair(r) ==
    LET Clamped(r1) ==
            [r1 EXCEPT !.current_turn_index =
                 ClampTurnIndex(r1.current_turn_index, Len(r1.players_order))]
    IN Clamped(EnsureRoomPlayersOrder(r))

\* room_to_info, for what it writes to the room before it builds the view.
RoomToInfo(r, t) ==
    LET Completed(r1) ==
            [r1 EXCEPT !.turns_completed = (r1.turn_state = TURN_STATE_FINISHED)]
        Viewed(r2) ==
            IF r2.state \in {ROOM_STATE_STARTED, ROOM_STATE_PAUSED}
               /\ r2.timer_enabled
               /\ r2.turn_state \in {TURN_STATE_READY_TO_START, TURN_STATE_ACTIVE}
            THEN CurrentRoomTurnRepair(r2)
            ELSE r2
    IN Viewed(Completed(AdvanceRoomTurn(r, t)))

\* normalize_timer_settings: err stands for the HTTP 400 it raises.
\* For comparison: timer settings taken without the range test.
TimerSettingsUnchecked(timer_enabled, turn_time_seconds) ==
    IF ~timer_enabled THEN [err |-> FALSE, enabled |-> FALSE, seconds |-> None]
    ELSE [err |-> FALSE, enabled |-> TRUE,
          seconds |-> IF turn_time_seconds = None
                      THEN DEFAULT_TURN_TIME_SECONDS ELSE turn_time_seconds]

NormalizeTimerSettings(timer_enabled, turn_time_seconds) ==
    IF ~timer_enabled THEN [err |-> FALSE, enabled |-> FALSE, seconds |-> None]
    ELSE LET secs == IF turn_time_seconds = None
                     THEN DEFAULT_TURN_TIME_SECONDS ELSE turn_time_seconds
         IN IF secs < MIN_TURN_TIME_SECONDS \/ secs > MAX_TURN_TIME_SECONDS
            THEN [err |-> TRUE, enabled |-> TRUE, seconds |-> secs]
            ELSE [err |-> FALSE, enabled |-> TRUE, seconds |-> secs]

(******************************* role dealer *******************************)
KnownScenarios ==
    {"standard", "all_spies", "same_card", "one_outlier_card", "different_cards", "multi_spy"}

\* A request without a list of allowed scenarios (None), as opposed to <<>>.
NoList == <<"None">>

\* For comparison: one spy for every three players.
SpiesPerThree(player_count) == Max(1, player_count \div 3)

multiple_spies_count(player_count) ==
    IF player_count <= 3 THEN 1
    ELSE IF player_count = 4 THEN 2
    ELSE IF player_count \in {5, 6} THEN 2
    ELSE IF player_count \in {7, 8} THEN 3
    ELSE 3

\* resolve_random_scenario: the scenarios the draw is made from; {} is ValueError.
ScenarioCandidates(player_count, allowed_scenarios) ==
    LET given == IF allowed_scenarios = NoList THEN {}
                 ELSE Range(allowed_scenarios) \cap KnownScenarios
        selected == IF given = {} THEN KnownScenarios ELSE given
        s1 == IF player_count <= 3 THEN selected \ {"multi_spy"} ELSE selected
    IN IF player_count < 2 THEN s1 \ {"one_outlier_card"} ELSE s1

DealErr == [err |-> TRUE]
\* For comparison: a deal that reports no spies.
DealtSpyless(spies, cards, resolved) ==
    [err |-> FALSE, spies |-> {}, cards |-> cards, resolved |-> resolved]

Dealt(spies, cards, resolved) ==
    [err |-> FALSE, spies |-> spies, cards |-> cards, resolved |-> resolved]

\* For comparison: a standard deal in which the spy holds the card as well.
DealStandardAllHold(P, catalog, resolved) ==
    {Dealt({spy}, [p \in P |-> card], resolved) : <<spy, card>> \in P \X catalog}

\* The standard deal: one spy without a card, one card for everybody else.
DealStandard(P, catalog, resolved) ==
    {Dealt({spy}, [p \in P |-> IF p = spy THEN NoCard ELSE card], resolved) :
        <<spy, card>> \in P \X catalog}

\* For comparison: an outlier deal that draws the second card from the whole catalog.
DealOutlierAnyCard(P, catalog, resolved) ==
    {Dealt({}, [p \in P |-> IF p = bo[3] THEN bo[2] ELSE bo[1]], resolved) :
        bo \in catalog \X catalog \X P}

\* The outlier deal: _random_distinct_card raises ValueError on a catalog of
\* fewer than two cards and otherwise draws until the card differs.
DealOutlier(P, catalog, resolved) ==
    IF Cardinality(catalog) < 2 THEN {DealErr}
    ELSE {Dealt({}, [p \in P |-> IF p = bo[3] THEN bo[2] ELSE bo[1]], resolved) :
            bo \in {x \in catalog \X catalog \X P : x[1] # x[2]}}

\* The outcomes of one scenario over the player set P with the catalog.
DealScenario(P, scenario, catalog, resolved) ==
    CASE scenario = "standard" -> DealStandard(P, catalog, resolved)
      [] scenario = "all_spies" ->
            {Dealt(P, [p \in P |-> NoCard], resolved)}
      [] scenario = "same_card" ->
            {Dealt({}, [p \in P |-> card], resolved) : card \in catalog}
      [] scenario = "one_outlier_card" -> DealOutlier(P, catalog, resolved)
      [] scenario = "different_cards" ->
            {Dealt({}, f, resolved) : f \in [P -> catalog]}
      [] OTHER ->
            {Dealt(sc[1], [p \in P |-> IF p \in sc[1] THEN NoCard ELSE sc[2]], resolved) :
                sc \in {S \in SUBSET P : Cardinality(S) = multiple_spies_count(Cardinality(P))}
                       \X catalog}

\* deal_roles: every outcome the random draws can give; DealErr is ValueError.
DealRoles(players, game_mode, random_allowed_modes, catalog) ==
    LET P == Range(players)
    IN IF players = <<>> THEN {Dealt({}, <<>>, "none")}
       ELSE IF game_mode = "standard" THEN DealScenario(P, "standard", catalog, "none")
       ELSE LET cands == ScenarioCandidates(Len(players), random_allowed_modes)
            IN IF cands = {} THEN {DealErr}
               ELSE UNION {DealScenario(P, sc, catalog, sc) : sc \in cands}

(******************************* room table ********************************)
Resp(rs, res) == [rooms |-> rs, res |-> res]
Put(rs, code, r) == [rs EXCEPT ![code] = r]

Expired(created_at, t) == t - created_at > Minutes(APP_TTL_MINUTES)

\* For comparison: a sweep that takes every expired room.
SweepsExpired(r, t) == Expired(r.created_at, t)

\* cleanup_sessions, the room half: only a waiting room is swept.
SweepsRoom(r, t) == Expired(r.created_at, t) /\ r.state = ROOM_STATE_WAITING

CleanupRooms(rs, t) ==
    [c \in DOMAIN rs |-> IF rs[c] # NoRoom /\ SweepsRoom(rs[c], t) THEN NoRoom ELSE rs[c]]

\* cleanup_sessions, the offline half: every expired session is swept.
NoSession == [state |-> "absent"]
CleanupOffline(ss, t) ==
    [k \in DOMAIN ss |->
        IF ss[k] # NoSession /\ Expired(ss[k].created_at, t) THEN NoSession ELSE ss[k]]

\* generate_room_code: draws are the uuid4 draws of the loop, long the fallback draw.
\* The fallback is returned without a look at the table.
FallbackCode(rs, long) == long

GenerateRoomCode(rs, draws, long) ==
    IF \E i \in 1..CodeAttempts : draws[i] \notin Live(rs)
    THEN draws[CHOOSE i \in 1..CodeAttempts :
                    draws[i] \notin Live(rs) /\ \A j \in 1..(i - 1) : draws[j] \in Live(rs)]
    ELSE FallbackCode(rs, long)

\* list(dict.fromkeys(s)): the first occurrence of every entry, in order.
RECURSIVE UniqueList(_)
UniqueList(s) ==
    IF s = <<>> THEN <<>>
    ELSE LET head == UniqueList(SubSeq(s, 1, Len(s) - 1))
         IN IF Contains(head, s[Len(s)]) THEN head ELSE Append(head, s[Len(s)])

\* The request's random_allowed_modes as the create and start handlers keep it.
AllowedModes(game_mode, allowed) ==
    IF allowed = NoList THEN NoList
    ELSE IF game_mode = "random" THEN UniqueList(allowed)
    ELSE allowed

\* list(dict.fromkeys(random_allowed_modes)) has fewer than two entries.
TooFewModes(game_mode, allowed) ==
    game_mode = "random" /\ allowed # NoList /\ Len(UniqueList(allowed)) < 2

\* random_allowed or []
OrEmpty(allowed) == IF allowed = NoList THEN <<>> ELSE allowed

NewRoom(code, user_id, game_mode, allowed, limit, enabled, seconds, t) ==
    [room_code |-> code,
     owner_user_id |-> user_id,
     owner_name |-> DisplayName(user_id),
     format_mode |-> "online",
     play_mode |-> game_mode,
     players |-> <<user_id>>,
     last_seen_by_user |-> [u \in {user_id} |-> t],
     resolved_random_mode |-> "none",
     random_allowed_modes |-> OrEmpty(AllowedModes(game_mode, allowed)),
     player_limit |-> limit,
     timer_enabled |-> enabled,
     turn_time_seconds |-> seconds,
     current_turn_index |-> 0,
     players_order |-> <<>>,
     turn_active |-> FALSE,
     turn_state |-> TURN_STATE_WAITING,
     turn_started_at |-> None,
     turns_completed |-> FALSE,
     spy_user_ids |-> {},
     cards_by_user |-> <<>>,
     state |-> ROOM_STATE_WAITING,
     starter_user_id |-> None,
     last_status_message |-> NoMessage,
     created_at |-> t]


\* POST /api/room/create
RoomCreate(rs0, t, user_id, format_mode, game_mode, allowed, limit, enabled, seconds, draws, long) ==
    LET rs == CleanupRooms(rs0, t)
        tm == NormalizeTimerSettings(enabled, seconds)
        code == GenerateRoomCode(rs, draws, long)
        room == NewRoom(code, user_id, game_mode, allowed, limit, tm.enabled, tm.seconds, t)
    IN IF format_mode # "online" THEN Resp(rs, InvalidConfiguration)
       ELSE IF game_mode \notin {"standard", "random"} THEN Resp(rs, InvalidConfiguration)
       ELSE IF limit < MIN_PLAYERS \/ limit > MAX_PLAYERS THEN Resp(rs, InvalidConfiguration)
       ELSE IF TooFewModes(game_mode, allowed) THEN Resp(rs, InvalidConfiguration)
       ELSE IF tm.err THEN Resp(rs, InvalidConfiguration)
       ELSE Resp(Put(rs, code, RoomToInfo(room, t)), OK)

\* For comparison: a join without the capacity test.
RoomNeverFull(r, user_id) == FALSE

\* For comparison: a capacity test that does not look for the caller in the roster.
RoomIsFull(r, user_id) == Len(r.players) >= r.player_limit

\* The capacity test of room_join.
RoomIsFullFor(r, user_id) ==
    ~Contains(r.players, user_id) /\ Len(r.players) >= r.player_limit

\* POST /api/room/join
RoomJoin(rs0, t, code, user_id) ==
    LET rs == CleanupRooms(rs0, t)
    IN IF rs[code] = NoRoom THEN Resp(rs, NotFound)
       ELSE LET Seated(r) ==
                    IF Contains(r.players, user_id) THEN r
                    ELSE [r EXCEPT !.players = Append(r.players, user_id)]
                Checked(r, del) ==
                    IF del THEN Resp(Put(rs, code, NoRoom), NotFound)
                    ELSE IF r.format_mode # "online" THEN Resp(Put(rs, code, r), InvalidState)
                    ELSE IF r.state # ROOM_STATE_WAITING
                         THEN Resp(Put(rs, code, r), InvalidState)
                    ELSE IF RoomIsFullFor(r, user_id) THEN Resp(Put(rs, code, r), InvalidState)
                    ELSE Resp(Put(rs, code,
                                  RoomToInfo(TouchRoomUser(Seated(r), user_id, t), t)), OK)
                Dropped(d) == Checked(d.room, d.del)
            IN Dropped(DropStaleRoomPlayers(rs[code], t))

\* is_dev_admin, by id (DEV_ADMIN_IDS).
IsDevAdmin(user_id) == user_id \in DEV_ADMIN_IDS

\* ensure_room_dev_bot_access: OK or the kind of the HTTP error it raises.
EnsureRoomDevBotAccess(r, user_id) ==
    IF ~DEV_TOOLS_ENABLED THEN NotFound
    ELSE IF ~Contains(r.players, user_id) THEN Forbidden
    ELSE IF r.owner_user_id # user_id THEN Forbidden
    ELSE IF ~IsDevAdmin(user_id) THEN Forbidden
    ELSE OK

\* The number of a bot entry: its display name is "Bot <number>". A bot id is a
\* fresh uuid4 draw that no request ever names; the draw made for bot number k is
\* represented by BotIdBase + k.
BotIdBase == 10
BotNumber(p) == p - BotIdBase

next_bot_number(r) ==
    LET bots == {p \in Range(r.players) : EntryIsBot(p)}
    IN IF bots = {} THEN 1
       ELSE (CHOOSE m \in {BotNumber(p) : p \in bots} :
                \A p \in bots : BotNumber(p) <= m) + 1

\* How many bots add_room_bots adds for a request of requested_count.
BotsToAdd(r, requested_count) ==
    Min(Max(requested_count, 0), Max(0, r.player_limit - Len(r.players)))

\* add_room_bots: the room afterwards; the returned count is BotsToAdd.
AddRoomBots(r, requested_count) ==
    LET to_add == BotsToAdd(r, requested_count)
        start_number == next_bot_number(r)
    IN IF to_add <= 0 THEN r
       ELSE [r EXCEPT !.players =
                r.players \o [offset \in 1..to_add |-> BotIdBase + start_number + offset - 1]]

\* clear_room_bots: the room afterwards; the returned count is the number of bots.
ClearRoomBots(r) ==
    RemoveAll(r, SelectSeq(r.players, EntryIsBot), "removed")

\* POST /api/room/bots/add
RoomBotsAdd(rs0, t, code, user_id, count) ==
    LET rs == CleanupRooms(rs0, t)
    IN IF rs[code] = NoRoom THEN Resp(rs, NotFound)
       ELSE LET r == rs[code]
                access == EnsureRoomDevBotAccess(r, user_id)
                r1 == TouchRoomUser(r, user_id, t)
                r2 == AddRoomBots(r1, count)
            IN IF access # OK THEN Resp(rs, access)
               ELSE IF r.state # ROOM_STATE_WAITING THEN Resp(rs, InvalidState)
               ELSE IF BotsToAdd(r1, count) <= 0 THEN Resp(Put(rs, code, r2), InvalidState)
               ELSE Resp(Put(rs, code, RoomToInfo(SetRoomStatusMessage(r2, "bots_added"), t)), OK)

\* POST /api/room/bots/fill
RoomBotsFill(rs0, t, code, user_id) ==
    LET rs == CleanupRooms(rs0, t)
    IN IF rs[code] = NoRoom THEN Resp(rs, NotFound)
       ELSE LET r == rs[code]
                access == EnsureRoomDevBotAccess(r, user_id)
                r1 == TouchRoomUser(r, user_id, t)
                remaining == Max(0, r1.player_limit - Len(r1.players))
                r2 == AddRoomBots(r1, remaining)
            IN IF access # OK THEN Resp(rs, access)
               ELSE IF r.state # ROOM_STATE_WAITING THEN Resp(rs, InvalidState)
               ELSE IF remaining <= 0 THEN Resp(Put(rs, code, r1), InvalidState)
               ELSE Resp(Put(rs, code, RoomToInfo(SetRoomStatusMessage(r2, "bots_added"), t)), OK)

\* POST /api/room/bots/clear
RoomBotsClear(rs0, t, code, user_id) ==
    LET rs == CleanupRooms(rs0, t)
    IN IF rs[code] = NoRoom THEN Resp(rs, NotFound)
       ELSE LET r == rs[code]
                access == EnsureRoomDevBotAccess(r, user_id)
                r1 == TouchRoomUser(r, user_id, t)
                Cleared(r2) ==
                    SetRoomStatusMessage(r2, IF Len(r2.players) < Len(r1.players)
                                             THEN "bots_removed" ELSE "no_bots")
            IN IF access # OK THEN Resp(rs, access)
               ELSE IF r.state # ROOM_STATE_WAITING THEN Resp(rs, InvalidState)
               ELSE Resp(Put(rs, code, RoomToInfo(Cleared(ClearRoomBots(r1)), t)), OK)

\* touch_room_user followed by drop_stale_room_players, as the handlers run them.
TouchAndDrop(r, user_id, t) == DropStaleRoomPlayers(TouchRoomUser(r, user_id, t), t)

\* POST /api/room/status
RoomStatus(rs0, t, code, user_id) ==
    LET rs == CleanupRooms(rs0, t)
    IN IF rs[code] = NoRoom THEN Resp(rs, NotFound)
       ELSE IF ~Contains(rs[code].players, user_id) THEN Resp(rs, Forbidden)
       ELSE LET Dropped(d) ==
                    IF d.del THEN Resp(Put(rs, code, NoRoom), NotFound)
                    ELSE Resp(Put(rs, code, RoomToInfo(d.room, t)), OK)
            IN Dropped(TouchAndDrop(rs[code], user_id, t))

\* POST /api/room/heartbeat
RoomHeartbeat(rs0, t, code, user_id) ==
    LET rs == CleanupRooms(rs0, t)
    IN IF rs[code] = NoRoom THEN Resp(rs, NotFound)
       ELSE IF ~Contains(rs[code].players, user_id) THEN Resp(rs, Forbidden)
       ELSE LET Dropped(d) ==
                    IF d.del THEN Resp(Put(rs, code, NoRoom), NotFound)
                    ELSE Resp(Put(rs, code, RoomToInfo(d.room, t)), OK)
            IN Dropped(TouchAndDrop(rs[code], user_id, t))

\* For comparison: a start that arms the turn loop whatever the timer setting.
TurnStateAlwaysReady(timer_enabled) == TURN_STATE_READY_TO_START

\* The turn sub-state a start or restart leaves.
TurnStateAfterDeal(timer_enabled) ==
    IF timer_enabled THEN TURN_STATE_READY_TO_START ELSE TURN_STATE_FINISHED

\* The lines of room_start and room_restart after the deal: roles, turn order,
\* starter and turn state. starter is the draw of random_choice(players).
BeginGame(r, deal, starter) ==
    [r EXCEPT !.spy_user_ids = deal.spies,
              !.cards_by_user = deal.cards,
              !.resolved_random_mode = deal.resolved,
              !.state = ROOM_STATE_STARTED,
              !.players_order = r.players,
              !.starter_user_id = starter,
              !.current_turn_index = IndexOf(r.players, starter),
              !.turn_started_at = None,
              !.turn_active = FALSE,
              !.turn_state = TurnStateAfterDeal(r.timer_enabled),
              !.turns_completed = ~r.timer_enabled,
              !.last_status_message = NoMessage]

\* The outcomes of dealing and starting over the roster of r.
BeginGameOutcomes(rs, code, r, catalog) ==
    LET deals == DealRoles(r.players, r.play_mode, r.random_allowed_modes, catalog)
    IN {IF deal.err THEN Resp(Put(rs, code, r), InvalidConfiguration)
        ELSE Resp(Put(rs, code, BeginGame(r, deal, starter)), OK) :
            <<deal, starter>> \in deals \X Range(r.players)}

\* The guards of room_start after the stale drop: OK or the error kind.
StartGuard(r, user_id) ==
    IF r.owner_user_id # user_id THEN Forbidden
    ELSE IF r.state # ROOM_STATE_WAITING THEN InvalidState
    ELSE IF Len(r.players) < MIN_PLAYERS THEN InvalidState
    ELSE OK

\* POST /api/room/start: the set of possible responses (the deal and the starter
\* are random).
RoomStart(rs0, t, code, user_id, catalog) ==
    LET rs == CleanupRooms(rs0, t)
    IN IF rs[code] = NoRoom THEN {Resp(rs, NotFound)}
       ELSE LET Checked(r, del) ==
                    IF del THEN {Resp(Put(rs, code, NoRoom), NotFound)}
                    ELSE IF StartGuard(r, user_id) # OK
                         THEN {Resp(Put(rs, code, r), StartGuard(r, user_id))}
                    ELSE BeginGameOutcomes(rs, code, r, catalog)
                Dropped(d) == Checked(d.room, d.del)
            IN Dropped(TouchAndDrop(rs[code], user_id, t))

\* The guards of room_restart after the stale drop.
RestartGuard(r, user_id) ==
    IF r.owner_user_id # user_id THEN Forbidden
    ELSE IF Len(r.players) < MIN_PLAYERS THEN InvalidState
    ELSE OK

\* POST /api/room/restart
RoomRestart(rs0, t, code, user_id, catalog) ==
    LET rs == CleanupRooms(rs0, t)
    IN IF rs[code] = NoRoom THEN {Resp(rs, NotFound)}
       ELSE LET Checked(r, del) ==
                    IF del THEN {Resp(Put(rs, code, NoRoom), NotFound)}
                    ELSE IF RestartGuard(r, user_id) # OK
                         THEN {Resp(Put(rs, code, r), RestartGuard(r, user_id))}
                    ELSE BeginGameOutcomes(rs, code, r, catalog)
                Dropped(d) == Checked(d.room, d.del)
            IN Dropped(TouchAndDrop(rs[code], user_id, t))

\* POST /api/room/role
RoomRole(rs0, t, code, user_id) ==
    LET rs == CleanupRooms(rs0, t)
    IN IF rs[code] = NoRoom THEN Resp(rs, NotFound)
       ELSE IF rs[code].state \notin {ROOM_STATE_STARTED, ROOM_STATE_PAUSED}
            THEN Resp(rs, InvalidState)
       ELSE IF ~Contains(rs[code].players, user_id) THEN Resp(rs, Forbidden)
       ELSE LET Dropped(d) ==
                    IF d.del THEN Resp(Put(rs, code, NoRoom), NotFound)
                    ELSE Resp(Put(rs, code, d.room), OK)
            IN Dropped(TouchAndDrop(rs[code], user_id, t))

\* The lines of room_turn_start that start the loop; the clock keeps a start
\* time that is already set.
\* For comparison: a turn start that stamps the turn with the time of the call.
StartTurnLoopRestamped(r, t) ==
    [r EXCEPT !.turn_state = TURN_STATE_ACTIVE, !.turn_active = TRUE, !.turn_started_at = t]

StartTurnLoop(r, t) ==
    [r EXCEPT !.turn_state = TURN_STATE_ACTIVE,
              !.turn_active = TRUE,
              !.turn_started_at = IF r.turn_started_at = None THEN t ELSE r.turn_started_at]

\* POST /api/room/turn/start
RoomTurnStart(rs0, t, code, user_id) ==
    LET rs == CleanupRooms(rs0, t)
    IN IF rs[code] = NoRoom THEN Resp(rs, NotFound)
       ELSE LET Normalized(n) ==
                    IF ~n.ok THEN Resp(Put(rs, code, n.room), InvalidState)
                    ELSE IF n.room.turn_state = TURN_STATE_FINISHED
                         THEN Resp(Put(rs, code, n.room), InvalidState)
                    ELSE IF n.room.turn_state
                                \notin {TURN_STATE_READY_TO_START, TURN_STATE_ACTIVE}
                         THEN Resp(Put(rs, code, n.room), InvalidState)
                    ELSE Resp(Put(rs, code, RoomToInfo(StartTurnLoop(n.room, t), t)), OK)
                Checked(r, del) ==
                    IF del THEN Resp(Put(rs, code, NoRoom), NotFound)
                    ELSE IF r.state = ROOM_STATE_PAUSED THEN Resp(Put(rs, code, r), InvalidState)
                    ELSE IF r.state # ROOM_STATE_STARTED
                         THEN Resp(Put(rs, code, r), InvalidState)
                    ELSE IF r.owner_user_id # user_id THEN Resp(Put(rs, code, r), Forbidden)
                    ELSE IF ~r.timer_enabled THEN Resp(Put(rs, code, r), InvalidState)
                    ELSE Normalized(NormalizeRoomTurnState(r))
                Dropped(d) == Checked(d.room, d.del)
            IN Dropped(TouchAndDrop(rs[code], user_id, t))

\* The lines of room_turn_finish that end the loop.
FinishTurnLoop(r) ==
    [r EXCEPT !.turn_state = TURN_STATE_FINISHED,
              !.turn_active = FALSE,
              !.turn_started_at = None,
              !.turns_completed = TRUE]

\* POST /api/room/turn/finish
RoomTurnFinish(rs0, t, code, user_id) ==
    LET rs == CleanupRooms(rs0, t)
    IN IF rs[code] = NoRoom THEN Resp(rs, NotFound)
       ELSE LET Checked(r, del) ==
                    IF del THEN Resp(Put(rs, code, NoRoom), NotFound)
                    ELSE IF r.state \notin {ROOM_STATE_STARTED, ROOM_STATE_PAUSED}
                         THEN Resp(Put(rs, code, r), InvalidState)
                    ELSE IF r.owner_user_id # user_id THEN Resp(Put(rs, code, r), Forbidden)
                    ELSE IF ~r.timer_enabled THEN Resp(Put(rs, code, r), InvalidState)
                    ELSE IF r.turn_state = TURN_STATE_WAITING
                         THEN Resp(Put(rs, code, r), InvalidState)
                    ELSE Resp(Put(rs, code, RoomToInfo(FinishTurnLoop(r), t)), OK)
                Dropped(d) == Checked(d.room, d.del)
            IN Dropped(TouchAndDrop(rs[code], user_id, t))

\* The lines of room_resume that resume a paused room at time t.
\* For comparison: a resume that leaves the turn clock stopped.
ResumeWithoutClock(r, t) ==
    SetRoomStatusMessage([r EXCEPT !.state = ROOM_STATE_STARTED], "resumed")

ResumeRoom(r, t) ==
    LET r1 == [r EXCEPT !.state = ROOM_STATE_STARTED]
        r2 == IF r1.timer_enabled /\ r1.turn_state = TURN_STATE_ACTIVE
              THEN [r1 EXCEPT !.turn_active = TRUE, !.turn_started_at = t]
              ELSE r1
    IN SetRoomStatusMessage(r2, "resumed")

\* POST /api/room/resume
RoomResume(rs0, t, code, user_id) ==
    LET rs == CleanupRooms(rs0, t)
    IN IF rs[code] = NoRoom THEN Resp(rs, NotFound)
       ELSE IF rs[code].owner_user_id # user_id THEN Resp(rs, Forbidden)
       ELSE IF ~Contains(rs[code].players, user_id) THEN Resp(rs, Forbidden)
       ELSE LET Checked(r, del) ==
                    IF del THEN Resp(Put(rs, code, NoRoom), NotFound)
                    ELSE IF r.state # ROOM_STATE_PAUSED
                         THEN Resp(Put(rs, code, r), InvalidState)
                    ELSE Resp(Put(rs, code, RoomToInfo(ResumeRoom(r, t), t)), OK)
                Dropped(d) == Checked(d.room, d.del)
            IN Dropped(TouchAndDrop(rs[code], user_id, t))

\* For comparison: a leave that destroys the room only when the roster is empty.
RosterEmpty(r) == r.players = <<>>

\* The test of room_leave that destroys the room.
NoRealPlayerLeft(r) == r.players = <<>> \/ RealRoomPlayerIds(r) = <<>>

\* POST /api/room/leave: always answers 200.
RoomLeave(rs0, t, code, user_id) ==
    LET rs == CleanupRooms(rs0, t)
    IN IF rs[code] = NoRoom THEN Resp(rs, OK)
       ELSE IF ~Contains(rs[code].players, user_id) THEN Resp(rs, OK)
       ELSE LET Removed(r) ==
                    IF NoRealPlayerLeft(r) THEN Resp(Put(rs, code, NoRoom), OK)
                    ELSE Resp(Put(rs, code, r), OK)
            IN Removed(RemoveRoomParticipant(rs[code], user_id, "left"))

(***************************** offline sessions ***************************)
SResp(ss, res) == [sessions |-> ss, res |-> res]
SPut(ss, sid, x) == [ss EXCEPT ![sid] = x]
\* list(range(1, player_count + 1))
Seats(player_count) == [i \in 1..player_count |-> i]

EnsureOfflinePlayersOrder(x) ==
    IF x.players_order # <<>> THEN x
    ELSE [x EXCEPT !.players_order = IF x.player_count <= 0 THEN <<1>>
                                     ELSE Seats(x.player_count),
                   !.current_turn_index = 0]

\* normalize_offline_turn_state: the repaired session and whether the timer is usable.
NormalizeOfflineTurnState(x) ==
    IF ~x.timer_enabled
    THEN [session |-> [x EXCEPT !.turn_time_seconds = None,
                                !.turn_started_at = None,
                                !.turn_active = FALSE,
                                !.turns_completed = (x.state = TURN_STATE_FINISHED)],
          ok |-> FALSE]
    ELSE LET x1 == IF x.turn_time_seconds = None
                      \/ x.turn_time_seconds < MIN_TURN_TIME_SECONDS
                      \/ x.turn_time_seconds > MAX_TURN_TIME_SECONDS
                   THEN [x EXCEPT !.turn_time_seconds = DEFAULT_TURN_TIME_SECONDS]
                   ELSE x
             Clamped(x2) ==
                 [x2 EXCEPT !.current_turn_index =
                      ClampTurnIndex(x2.current_turn_index, Len(x2.players_order))]
             Usable(x3) ==
                 IF x3.players_order = <<>>
                 THEN [session |-> [x3 EXCEPT !.turns_completed = TRUE,
                                              !.turn_active = FALSE,
                                              !.state = TURN_STATE_FINISHED,
                                              !.turn_started_at = None],
                       ok |-> FALSE]
                 ELSE [session |-> x3, ok |-> TRUE]
         IN Usable(Clamped(EnsureOfflinePlayersOrder(x1)))

AdvanceOfflineTurn(x, t) ==
    IF x.state # TURN_STATE_ACTIVE \/ ~x.turn_active THEN x
    ELSE LET Advanced(n) ==
                 IF ~n.ok THEN n.session
                 ELSE IF n.session.turn_started_at = None THEN n.session
                 ELSE AdvanceClock(n.session, t)
         IN Advanced(NormalizeOfflineTurnState(x))

\* build_offline_turn_status_response, for what it writes to the session.
BuildOfflineTurnStatus(x) ==
    LET Clamped(x1) ==
            [x1 EXCEPT !.current_turn_index =
                 ClampTurnIndex(x1.current_turn_index, Len(x1.players_order))]
        Completed(x2) == [x2 EXCEPT !.turns_completed = (x2.state = TURN_STATE_FINISHED)]
    IN Completed(Clamped(EnsureOfflinePlayersOrder(x)))

NewSession(sid, user_id, game_mode, allowed, player_count, enabled, seconds, deal, t) ==
    [session_id |-> sid,
     owner_user_id |-> user_id,
     game_mode |-> game_mode,
     resolved_random_mode |-> deal.resolved,
     player_count |-> player_count,
     current_player_number |-> 1,
     timer_enabled |-> enabled,
     turn_time_seconds |-> seconds,
     current_turn_index |-> 0,
     players_order |-> Seats(player_count),
     turn_active |-> FALSE,
     turn_started_at |-> None,
     turns_completed |-> FALSE,
     spy_players |-> deal.spies,
     cards_for_players |-> deal.cards,
     random_allowed_modes |-> OrEmpty(AllowedModes(game_mode, allowed)),
     starter_player_number |-> None,
     state |-> OFFLINE_STATE_REVEALING,
     created_at |-> t]

\* POST /api/offline/start: sid is the uuid4 draw; the set of possible responses.
OfflineStart(ss0, t, user_id, game_mode, player_count, allowed, enabled, seconds, sid, catalog) ==
    LET ss == CleanupOffline(ss0, t)
        tm == NormalizeTimerSettings(enabled, seconds)
        deals == DealRoles(Seats(player_count), game_mode,
                           AllowedModes(game_mode, allowed), catalog)
    IN IF player_count < MIN_PLAYERS \/ player_count > MAX_PLAYERS
       THEN {SResp(ss, InvalidConfiguration)}
       ELSE IF game_mode \notin {"standard", "random"} THEN {SResp(ss, InvalidConfiguration)}
       ELSE IF TooFewModes(game_mode, allowed) THEN {SResp(ss, InvalidConfiguration)}
       ELSE IF tm.err THEN {SResp(ss, InvalidConfiguration)}
       ELSE {IF deal.err THEN SResp(ss, InvalidConfiguration)
             ELSE SResp(SPut(ss, sid, NewSession(sid, user_id, game_mode, allowed, player_count,
                                                 tm.enabled, tm.seconds, deal, t)), OK) :
                deal \in deals}

\* For comparison: a lookup without the owner test.
SessionLookupOnly(ss, sid, user_id) ==
    IF ss[sid] = NoSession THEN NotFound ELSE OK

\* The lookup and owner test that open every other offline handler.
SessionGuard(ss, sid, user_id) ==
    IF ss[sid] = NoSession THEN NotFound
    ELSE IF ss[sid].owner_user_id # user_id THEN Forbidden
    ELSE OK

\* cards_for_players.get(player_number)
CardOf(x, player_number) ==
    IF player_number \in DOMAIN x.cards_for_players
    THEN x.cards_for_players[player_number] ELSE NoCard

\* POST /api/offline/reveal: the session is read, not written; the response
\* carries the seat, its role and its card.
OfflineReveal(ss0, t, sid, user_id) ==
    LET ss == CleanupOffline(ss0, t)
        x == ss[sid]
    IN IF SessionGuard(ss, sid, user_id) # OK THEN SResp(ss, SessionGuard(ss, sid, user_id))
       ELSE [sessions |-> ss, res |-> OK,
             player_number |-> x.current_player_number,
             role |-> IF CardOf(x, x.current_player_number) # NoCard THEN "card" ELSE "spy",
             card |-> CardOf(x, x.current_player_number)]

\* For comparison: a reveal phase that always ends in the armed turn loop.
FinishRevealReady(x, starter) ==
    [x EXCEPT !.starter_player_number = starter,
              !.state = TURN_STATE_READY_TO_START,
              !.current_turn_index = IndexOf(x.players_order, starter),
              !.turn_started_at = None,
              !.turn_active = FALSE,
              !.turns_completed = FALSE]

\* The lines of offline_close that end the reveal phase with the drawn starter.
FinishReveal(x, starter) ==
    IF x.timer_enabled
    THEN [x EXCEPT !.starter_player_number = starter,
                   !.state = TURN_STATE_READY_TO_START,
                   !.current_turn_index = IndexOf(x.players_order, starter),
                   !.turn_started_at = None,
                   !.turn_active = FALSE,
                   !.turns_completed = FALSE]
    ELSE [x EXCEPT !.starter_player_number = starter,
                   !.state = TURN_STATE_FINISHED,
                   !.current_turn_index = 0,
                   !.turn_started_at = None,
                   !.turn_active = FALSE,
                   !.turns_completed = TRUE]

\* OfflineCloseResponse: finished, the next seat and the starter (None when unset).
CloseResp(ss, finished, current_player_number, starter_player_number) ==
    [sessions |-> ss, res |-> OK, finished |-> finished,
     current_player_number |-> current_player_number,
     starter_player_number |-> starter_player_number]

\* POST /api/offline/close: the set of possible responses (the starter is random).
OfflineClose(ss0, t, sid, user_id) ==
    LET ss == CleanupOffline(ss0, t)
        x == ss[sid]
    IN IF SessionGuard(ss, sid, user_id) # OK THEN {SResp(ss, SessionGuard(ss, sid, user_id))}
       ELSE IF x.current_player_number < x.player_count
            THEN {CloseResp(SPut(ss, sid, [x EXCEPT !.current_player_number = @ + 1]),
                            FALSE, x.current_player_number + 1, None)}
       ELSE {CloseResp(SPut(ss, sid, FinishReveal(x, starter)), TRUE, None, starter) :
                starter \in 1..x.player_count}

\* For comparison: a restart that deals again and keeps the turn loop as it is.
RestartDealOnly(x, deal) ==
    [x EXCEPT !.spy_players = deal.spies,
              !.cards_for_players = deal.cards,
              !.resolved_random_mode = deal.resolved,
              !.current_player_number = 1,
              !.state = OFFLINE_STATE_REVEALING]

\* The lines of offline_restart that reset the session around a new deal.
RestartSession(x, deal) ==
    [x EXCEPT !.spy_players = deal.spies,
              !.cards_for_players = deal.cards,
              !.resolved_random_mode = deal.resolved,
              !.current_player_number = 1,
              !.state = OFFLINE_STATE_REVEALING,
              !.current_turn_index = 0,
              !.turn_started_at = None,
              !.turn_active = FALSE,
              !.turns_completed = FALSE,
              !.starter_player_number = None]

\* POST /api/offline/restart
OfflineRestart(ss0, t, sid, user_id, catalog) ==
    LET ss == CleanupOffline(ss0, t)
        x == ss[sid]
        deals == DealRoles(Seats(x.player_count), x.game_mode,
                           IF x.random_allowed_modes = <<>> THEN NoList
                           ELSE x.random_allowed_modes, catalog)
    IN IF SessionGuard(ss, sid, user_id) # OK THEN {SResp(ss, SessionGuard(ss, sid, user_id))}
       ELSE {IF deal.err THEN SResp(ss, InvalidConfiguration)
             ELSE SResp(SPut(ss, sid, RestartSession(x, deal)), OK) : deal \in deals}

\* POST /api/offline/turn/status
OfflineTurnStatus(ss0, t, sid, user_id) ==
    LET ss == CleanupOffline(ss0, t)
    IN IF SessionGuard(ss, sid, user_id) # OK THEN SResp(ss, SessionGuard(ss, sid, user_id))
       ELSE SResp(SPut(ss, sid, BuildOfflineTurnStatus(AdvanceOfflineTurn(ss[sid], t))), OK)

\* For comparison: a turn start that does not stamp the start of the turn.
StartSessionLoopUnstamped(y, t) ==
    [y EXCEPT !.state = TURN_STATE_ACTIVE, !.turn_active = TRUE]

\* The lines of offline_turn_start that start the loop.
StartSessionLoop(y, t) ==
    [y EXCEPT !.state = TURN_STATE_ACTIVE,
              !.turn_active = TRUE,
              !.turn_started_at = IF y.turn_started_at = None THEN t
                                  ELSE y.turn_started_at]

\* POST /api/offline/turn/start
OfflineTurnStart(ss0, t, sid, user_id) ==
    LET ss == CleanupOffline(ss0, t)
        x == ss[sid]
        Checked(y, ok) ==
            IF ~ok THEN SResp(SPut(ss, sid, y), InvalidState)
            ELSE IF y.state = TURN_STATE_FINISHED THEN SResp(SPut(ss, sid, y), InvalidState)
            ELSE IF y.state \notin {TURN_STATE_READY_TO_START, TURN_STATE_ACTIVE}
                 THEN SResp(SPut(ss, sid, y), InvalidState)
            ELSE SResp(SPut(ss, sid,
                            BuildOfflineTurnStatus(AdvanceOfflineTurn(StartSessionLoop(y, t), t))), OK)
        Normalized(n) == Checked(n.session, n.ok)
    IN IF SessionGuard(ss, sid, user_id) # OK THEN SResp(ss, SessionGuard(ss, sid, user_id))
       ELSE IF ~x.timer_enabled THEN SResp(ss, InvalidState)
       ELSE Normalized(NormalizeOfflineTurnState(x))

\* For comparison: a finish that leaves the start of the turn in place.
FinishSessionLoopStamped(x) ==
    [x EXCEPT !.state = TURN_STATE_FINISHED, !.turn_active = FALSE, !.turns_completed = TRUE]

\* The lines of offline_turn_finish that end the loop.
FinishSessionLoop(x) ==
    [x EXCEPT !.state = TURN_STATE_FINISHED,
              !.turn_active = FALSE,
              !.turn_started_at = None,
              !.turns_completed = TRUE]

\* POST /api/offline/turn/finish
OfflineTurnFinish(ss0, t, sid, user_id) ==
    LET ss == CleanupOffline(ss0, t)
        x == ss[sid]
    IN IF SessionGuard(ss, sid, user_id) # OK THEN SResp(ss, SessionGuard(ss, sid, user_id))
       ELSE IF ~x.timer_enabled THEN SResp(ss, InvalidState)
       ELSE IF x.state = OFFLINE_STATE_REVEALING THEN SResp(ss, InvalidState)
       ELSE SResp(SPut(ss, sid,
                       BuildOfflineTurnStatus(FinishSessionLoop(x))), OK)

(**************************** room specification ***************************)
\* The specification Spec follows one game at a time, a room or an offline
\* session: a create or offline start request is issued when both tables are
\* empty, uuid4 draws TheCode or TheSession, and every request names it. Games
\* do not interact except through the code draw and the sweep, which SpecCodes
\* and SpecSweep follow.
TheCode == "AAAAAA"
RoomCatalog == {"card1"}
CreatorIds == {1}
LimitInputs == {3}
TimerInputs == {<<FALSE, None>>, <<TRUE, 5>>, <<TRUE, 4>>}
BotCountInputs == {1, 2}
TheSession == "s1"
SeatInputs == {3}
\* One tick of the room clock: just past the heartbeat staleness horizon.
TickStep == Seconds(HEARTBEAT_STALE_SECONDS + 1)

EmptyRooms == [c \in RoomCodes |-> NoRoom]
EmptySessions == [k \in SessionIds |-> NoSession]

Init ==
    /\ rooms = EmptyRooms
    /\ offline_sessions = EmptySessions
    /\ all_cards = RoomCatalog
    /\ now = 0

\* A room handler's effect: the new table; cleanup_sessions also sweeps the
\* offline sessions.
Apply(out) ==
    /\ rooms' = out.rooms
    /\ offline_sessions' = CleanupOffline(offline_sessions, now)
    /\ UNCHANGED <<all_cards, now>>

Tick ==
    /\ now + TickStep <= MaxTicks * TickStep
    /\ now' = now + TickStep
    /\ UNCHANGED <<rooms, offline_sessions, all_cards>>

\* An offline handler's effect: the new sessions; cleanup_sessions also sweeps
\* the rooms.
ApplyOffline(out) ==
    /\ offline_sessions' = out.sessions
    /\ rooms' = CleanupRooms(rooms, now)
    /\ UNCHANGED <<all_cards, now>>

LiveSessions(ss) == {k \in DOMAIN ss : ss[k] # NoSession}
NothingLive == Live(rooms) = {} /\ LiveSessions(offline_sessions) = {}

Create ==
    /\ NothingLive
    /\ \E u \in CreatorIds, limit \in LimitInputs, tm \in TimerInputs :
          Apply(RoomCreate(rooms, now, u, "online", "standard", NoList, limit, tm[1], tm[2],
                           [i \in 1..CodeAttempts |-> TheCode], "CCCCCCCC"))

Join == \E u \in RealIds : Apply(RoomJoin(rooms, now, TheCode, u))

BotsAdd == \E u \in RealIds, k \in BotCountInputs : Apply(RoomBotsAdd(rooms, now, TheCode, u, k))

BotsFill == \E u \in RealIds : Apply(RoomBotsFill(rooms, now, TheCode, u))

BotsClear == \E u \in RealIds : Apply(RoomBotsClear(rooms, now, TheCode, u))

Status == \E u \in RealIds : Apply(RoomStatus(rooms, now, TheCode, u))

Heartbeat == \E u \in RealIds : Apply(RoomHeartbeat(rooms, now, TheCode, u))

Start == \E u \in RealIds : \E out \in RoomStart(rooms, now, TheCode, u, all_cards) : Apply(out)

Restart == \E u \in RealIds : \E out \in RoomRestart(rooms, now, TheCode, u, all_cards) : Apply(out)

Role == \E u \in RealIds : Apply(RoomRole(rooms, now, TheCode, u))

TurnStart == \E u \in RealIds : Apply(RoomTurnStart(rooms, now, TheCode, u))

TurnFinish == \E u \in RealIds : Apply(RoomTurnFinish(rooms, now, TheCode, u))

Resume == \E u \in RealIds : Apply(RoomResume(rooms, now, TheCode, u))

Leave == \E u \in RealIds : Apply(RoomLeave(rooms, now, TheCode, u))

OStart ==
    /\ NothingLive
    /\ \E u \in CreatorIds, n \in SeatInputs, tm \in TimerInputs :
          \E out \in OfflineStart(offline_sessions, now, u, "standard", n, NoList, tm[1], tm[2],
                                   TheSession, all_cards) : ApplyOffline(out)

OReveal == \E u \in RealIds : ApplyOffline(OfflineReveal(offline_sessions, now, TheSession, u))

OClose ==
    \E u \in RealIds : \E out \in OfflineClose(offline_sessions, now, TheSession, u) :
        ApplyOffline(out)

ORestart ==
    \E u \in RealIds : \E out \in OfflineRestart(offline_sessions, now, TheSession, u, all_cards) :
        ApplyOffline(out)

OTurnStatus ==
    \E u \in RealIds : ApplyOffline(OfflineTurnStatus(offline_sessions, now, TheSession, u))

OTurnStart ==
    \E u \in RealIds : ApplyOffline(OfflineTurnStart(offline_sessions, now, TheSession, u))

OTurnFinish ==
    \E u \in RealIds : ApplyOffline(OfflineTurnFinish(offline_sessions, now, TheSession, u))

Next ==
    \/ Tick
    \/ Create
    \/ Join
    \/ BotsAdd
    \/ BotsFill
    \/ BotsClear
    \/ Status
    \/ Heartbeat
    \/ Start
    \/ Restart
    \/ Role
    \/ TurnStart
    \/ TurnFinish
    \/ Resume
    \/ Leave
    \/ OStart
    \/ OReveal
    \/ OClose
    \/ ORestart
    \/ OTurnStatus
    \/ OTurnStart
    \/ OTurnFinish

Spec == Init /\ [][Next]_vars

(************************** the turn clock, SpecClock ***********************)
\* SpecClock follows the turn loop of one game whose turn was started at time 0,
\* a room or an offline session, on a clock of single ticks: the session is
\* polled through its status handler, the room through advance_room_turn.
MaxClockSeconds == 21
ClockSeats == {MIN_PLAYERS, MIN_PLAYERS + 1}

RECURSIVE CloseSeats(_, _)
\* The session tables after k more close requests of the owner at time 0.
CloseSeats(tables, k) ==
    IF k = 0 THEN tables
    ELSE CloseSeats(UNION {{out.sessions : out \in OfflineClose(ss, 0, TheSession, 1)} :
                                ss \in tables}, k - 1)

\* The session tables after start, the closes of every seat and turn/start.
ClockSessionTables ==
    UNION {
        LET started == {out.sessions :
                            out \in OfflineStart(EmptySessions, 0, 1, "standard", n, NoList, TRUE,
                                                 MIN_TURN_TIME_SECONDS, TheSession, RoomCatalog)}
        IN {OfflineTurnStart(ss, 0, TheSession, 1).sessions : ss \in CloseSeats(started, n)} :
        n \in ClockSeats}

\* The room tables after create, joins, a bot for the fourth seat, start and
\* turn/start, all at time 0.
ClockRoomTables ==
    UNION {
        LET made == RoomCreate(EmptyRooms, 0, 1, "online", "standard", NoList, n, TRUE,
                               MIN_TURN_TIME_SECONDS,
                               [i \in 1..CodeAttempts |-> TheCode], "CCCCCCCC").rooms
            two == RoomJoin(made, 0, TheCode, 2).rooms
            three == RoomJoin(two, 0, TheCode, 3).rooms
            full == RoomBotsFill(three, 0, TheCode, 1).rooms
        IN {RoomTurnStart(out.rooms, 0, TheCode, 1).rooms :
                out \in RoomStart(full, 0, TheCode, 1, RoomCatalog)} :
        n \in ClockSeats}

InitClock ==
    /\ \/ rooms \in ClockRoomTables /\ offline_sessions = EmptySessions
       \/ rooms = EmptyRooms /\ offline_sessions \in ClockSessionTables
    /\ all_cards = RoomCatalog
    /\ now = 0

ClockTick ==
    /\ now < Seconds(MaxClockSeconds)
    /\ now' = now + 1
    /\ UNCHANGED <<rooms, offline_sessions, all_cards>>

\* advance_room_turn at the current time.
ClockRoomPoll ==
    /\ rooms[TheCode] # NoRoom
    /\ rooms' = [rooms EXCEPT ![TheCode] = AdvanceRoomTurn(@, now)]
    /\ UNCHANGED <<offline_sessions, all_cards, now>>

ClockSessionPoll ==
    /\ offline_sessions[TheSession] # NoSession
    /\ OTurnStatus

NextClock ==
    \/ ClockTick
    \/ ClockRoomPoll
    \/ ClockSessionPoll

SpecClock == InitClock /\ [][NextClock]_vars

(********************** a game in progress, SpecMidGame *********************)
\* SpecMidGame follows a room of four participants, three users and a bot, from
\* the moment its game was started.
MidGameTables ==
    UNION {
        LET made == RoomCreate(EmptyRooms, 0, 1, "online", "standard", NoList, MIN_PLAYERS + 1,
                               tm[1], tm[2], [i \in 1..CodeAttempts |-> TheCode],
                               "CCCCCCCC").rooms
            two == RoomJoin(made, 0, TheCode, 2).rooms
            three == RoomJoin(two, 0, TheCode, 3).rooms
            four == RoomBotsAdd(three, 0, TheCode, 1, 1).rooms
        IN {out.rooms : out \in RoomStart(four, 0, TheCode, 1, RoomCatalog)} :
        tm \in {<<FALSE, None>>, <<TRUE, MIN_TURN_TIME_SECONDS>>}}

InitMidGame ==
    /\ rooms \in MidGameTables
    /\ offline_sessions = EmptySessions
    /\ all_cards = RoomCatalog
    /\ now = 0

NextMidGame ==
    \/ Tick
    \/ Status
    \/ Heartbeat
    \/ Role
    \/ TurnStart
    \/ TurnFinish
    \/ Restart
    \/ Resume
    \/ Leave

SpecMidGame == InitMidGame /\ [][NextMidGame]_vars

(************************** the room table, SpecCodes ***********************)
\* SpecCodes follows the whole room table at time 0: every create request with
\* every outcome of its uuid4 draws, and the joins and leaves that fill and
\* empty the rooms.
CodeDraws == [1..CodeAttempts -> ShortCodes]
CodesUsers == {1, 2}

CodesCreate ==
    \E u \in CodesUsers, draws \in CodeDraws, long \in LongCodes :
        Apply(RoomCreate(rooms, now, u, "online", "standard", NoList, MIN_PLAYERS, FALSE, None,
                         draws, long))

CodesJoin == \E c \in RoomCodes, u \in CodesUsers : Apply(RoomJoin(rooms, now, c, u))

CodesLeave == \E c \in RoomCodes, u \in CodesUsers : Apply(RoomLeave(rooms, now, c, u))

NextCodes ==
    \/ CodesCreate
    \/ CodesJoin
    \/ CodesLeave

SpecCodes == Init /\ [][NextCodes]_vars

(**************************** the sweep, SpecSweep **************************)
\* SpecSweep follows one room on a clock that jumps between time 0 and the
\* minutes around the time-to-live.
MaxSweepOffset == 1
SweepTimes ==
    {0} \cup {Minutes(APP_TTL_MINUTES - k) : k \in 1..MaxSweepOffset}
        \cup {Minutes(APP_TTL_MINUTES + k) : k \in 1..MaxSweepOffset}

SweepTick ==
    /\ \E t \in SweepTimes : t > now /\ now' = t
    /\ UNCHANGED <<rooms, offline_sessions, all_cards>>

NextSweep ==
    \/ SweepTick
    \/ Create
    \/ Join
    \/ Start
    \/ Status
    \/ Leave

SpecSweep == Init /\ [][NextSweep]_vars

(*********************** offline sessions, SpecOffline **********************)
\* SpecOffline follows one offline session of three or four seats, with and
\* without the timer, dealt in the standard mode or in a random mode, through
\* every request of its owner and of the other callers.
OfflineSeats == {MIN_PLAYERS, MIN_PLAYERS + 1}
OfflineTimers == {<<FALSE, None>>, <<TRUE, MIN_TURN_TIME_SECONDS>>}
OfflineModes == {<<"standard", NoList>>, <<"random", <<"all_spies", "same_card">>>>}

OfflineOpen ==
    /\ NothingLive
    /\ \E u \in CreatorIds, n \in OfflineSeats, tm \in OfflineTimers, mode \in OfflineModes :
          \E out \in OfflineStart(offline_sessions, now, u, mode[1], n, mode[2], tm[1], tm[2],
                                   TheSession, all_cards) : ApplyOffline(out)

NextOffline ==
    \/ Tick
    \/ OfflineOpen
    \/ OReveal
    \/ OClose
    \/ ORestart
    \/ OTurnStatus
    \/ OTurnStart
    \/ OTurnFinish

SpecOffline == Init /\ [][NextOffline]_vars

(************************ timer settings, SpecTimer *************************)
\* SpecTimer follows one room or one offline session created with every kind of
\* timer request: disabled with and without a duration, enabled without a
\* duration, and enabled with the durations at and next to both limits.
TimerRequests ==
    {<<FALSE, None>>, <<FALSE, MIN_TURN_TIME_SECONDS>>, <<TRUE, None>>,
     <<TRUE, MIN_TURN_TIME_SECONDS - 1>>, <<TRUE, MIN_TURN_TIME_SECONDS>>,
     <<TRUE, MAX_TURN_TIME_SECONDS>>, <<TRUE, MAX_TURN_TIME_SECONDS + 1>>}

TimedCreate ==
    /\ NothingLive
    /\ \E u \in CreatorIds, tm \in TimerRequests :
          Apply(RoomCreate(rooms, now, u, "online", "standard", NoList, MIN_PLAYERS, tm[1], tm[2],
                           [i \in 1..CodeAttempts |-> TheCode], "CCCCCCCC"))

TimedOfflineStart ==
    /\ NothingLive
    /\ \E u \in CreatorIds, tm \in TimerRequests :
          \E out \in OfflineStart(offline_sessions, now, u, "standard", MIN_PLAYERS, NoList,
                                   tm[1], tm[2], TheSession, all_cards) : ApplyOffline(out)

NextTimer ==
    \/ Tick
    \/ TimedCreate
    \/ Join
    \/ Status
    \/ Start
    \/ Restart
    \/ TurnStart
    \/ TurnFinish
    \/ Resume
    \/ Leave
    \/ TimedOfflineStart
    \/ OClose
    \/ ORestart
    \/ OTurnStatus
    \/ OTurnStart
    \/ OTurnFinish

SpecTimer == Init /\ [][NextTimer]_vars

(*************************** the dealer, SpecDeal ***************************)
\* SpecDeal draws the catalog, with one card or with two, and deals one offline
\* session for every player count from MIN_PLAYERS to MAX_PLAYERS, in the
\* standard mode and in the random mode without a list, with lists of known
\* scenarios, with a list naming no known scenario and with mixed lists.
DealCatalogs == {{"card1"}, {"card1", "card2"}}
DealSeats == MIN_PLAYERS..MAX_PLAYERS
DealModes ==
    {<<"standard", NoList>>,
     <<"random", NoList>>,
     <<"random", <<"multi_spy", "one_outlier_card", "multi_spy">>>>,
     <<"random", <<"multi_spy", "multi_spy">>>>,
     <<"random", <<"multi_spy", "bogus">>>>,
     <<"random", <<"one_outlier_card", "bogus">>>>,
     <<"random", <<"bogus", "unknown">>>>}

InitDeal ==
    /\ rooms = EmptyRooms
    /\ offline_sessions = EmptySessions
    /\ all_cards \in DealCatalogs
    /\ now = 0

DealStart ==
    /\ NothingLive
    /\ \E u \in CreatorIds, n \in DealSeats, mode \in DealModes :
          \E out \in OfflineStart(offline_sessions, now, u, mode[1], n, mode[2], FALSE, None,
                                   TheSession, all_cards) : ApplyOffline(out)

NextDeal == DealStart

SpecDeal == InitDeal /\ [][NextDeal]_vars

(************************* the requests of a state **************************)
\* The responses the room handlers can give in the current state, over the
\* callers and inputs of Next.
RoomResponses ==
    UNION {
        {RoomJoin(rooms, now, TheCode, u), RoomBotsFill(rooms, now, TheCode, u),
         RoomBotsClear(rooms, now, TheCode, u), RoomStatus(rooms, now, TheCode, u),
         RoomHeartbeat(rooms, now, TheCode, u), RoomRole(rooms, now, TheCode, u),
         RoomTurnStart(rooms, now, TheCode, u), RoomTurnFinish(rooms, now, TheCode, u),
         RoomResume(rooms, now, TheCode, u), RoomLeave(rooms, now, TheCode, u)}
        \cup {RoomBotsAdd(rooms, now, TheCode, u, k) : k \in BotCountInputs}
        \cup RoomStart(rooms, now, TheCode, u, all_cards)
        \cup RoomRestart(rooms, now, TheCode, u, all_cards) : u \in RealIds}

\* The same for the offline handlers.
OfflineResponses ==
    UNION {
        {OfflineReveal(offline_sessions, now, TheSession, u),
         OfflineTurnStatus(offline_sessions, now, TheSession, u),
         OfflineTurnStart(offline_sessions, now, TheSession, u),
         OfflineTurnFinish(offline_sessions, now, TheSession, u)}
        \cup OfflineClose(offline_sessions, now, TheSession, u)
        \cup OfflineRestart(offline_sessions, now, TheSession, u, all_cards) : u \in RealIds}

TheRoom == rooms[TheCode]
HasRoom == TheRoom # NoRoom

(********************************* claims **********************************)
\* C1: in every reachable state the roster of a room holds at most player_limit
\* participants, bots included.
RosterWithinLimit ==
    \A c \in Live(rooms) : Len(rooms[c].players) <= rooms[c].player_limit

\* A full room with bots in it and a user outside who may ask to join.
RosterAtLimit ==
    /\ HasRoom
    /\ Len(TheRoom.players) = TheRoom.player_limit
    /\ \E p \in Range(TheRoom.players) : EntryIsBot(p)
    /\ \E u \in RealIds : ~Contains(TheRoom.players, u)

\* C2: in every reachable state of a room with a non-empty players_order,
\* 0 <= current_turn_index < len(players_order).
TurnIndexInRange ==
    \A c \in Live(rooms) :
        rooms[c].players_order # <<>> =>
            /\ 0 <= rooms[c].current_turn_index
            /\ rooms[c].current_turn_index < Len(rooms[c].players_order)

\* A game that lost a participant while the pointer stood on the last seat.
PointerOnLastSeatAfterRemoval ==
    /\ HasRoom
    /\ TheRoom.state = ROOM_STATE_PAUSED
    /\ Len(TheRoom.players_order) = 2
    /\ TheRoom.current_turn_index = 1

\* C3: in every reachable state of a room, players_order has no duplicates and
\* every identifier in it is a key of the roster.
OrderWithinRoster ==
    \A c \in Live(rooms) :
        LET order == rooms[c].players_order
        IN /\ \A i, j \in 1..Len(order) : order[i] = order[j] => i = j
           /\ Range(order) \subseteq Range(rooms[c].players)

\* A game whose turn order shrank to one seat with the roster.
OrderShrankWithRoster ==
    /\ HasRoom
    /\ TheRoom.state = ROOM_STATE_PAUSED
    /\ Len(TheRoom.players_order) = 1
    /\ TheRoom.players_order = TheRoom.players

\* C4: every operation is all-or-nothing: a request answered with NotFound,
\* Forbidden, InvalidState or InvalidConfiguration leaves the room table and the
\* offline sessions exactly as they were before the call.
RejectedCallsChangeNothing ==
    /\ \A out \in RoomResponses : out.res \in Errors => out.rooms = rooms
    /\ \A out \in OfflineResponses : out.res \in Errors => out.sessions = offline_sessions

\* C7: a rejected start (Forbidden, InvalidState) leaves the room in its
\* previous lifecycle state, with its roster and with the roles it had.
RejectedStartKeepsRoom ==
    \A u \in RealIds : \A out \in RoomStart(rooms, now, TheCode, u, all_cards) :
        (HasRoom /\ out.res \in {Forbidden, InvalidState}) =>
            /\ out.rooms[TheCode].state = TheRoom.state
            /\ out.rooms[TheCode].players = TheRoom.players
            /\ out.rooms[TheCode].cards_by_user = TheRoom.cards_by_user
            /\ out.rooms[TheCode].spy_user_ids = TheRoom.spy_user_ids

\* C8: a successful start leaves the room Started, players_order equal to the
\* roster in roster order, the starter a roster member, a role for every roster
\* member (a card or a seat among the spies), turn_active false, turn_state
\* ReadyToStart with the timer and Finished with turns_completed without it,
\* and no status message.
StartPostState ==
    \A u \in RealIds : \A out \in RoomStart(rooms, now, TheCode, u, all_cards) :
        out.res = OK =>
            LET r == out.rooms[TheCode]
            IN /\ r.state = ROOM_STATE_STARTED
               /\ r.players = TheRoom.players
               /\ r.players_order = r.players
               /\ Contains(r.players, r.starter_user_id)
               /\ \A p \in Range(r.players) :
                      p \in r.spy_user_ids \/ p \in DOMAIN r.cards_by_user
               /\ ~r.turn_active
               /\ r.turn_started_at = None
               /\ r.timer_enabled =>
                      r.turn_state = TURN_STATE_READY_TO_START /\ ~r.turns_completed
               /\ ~r.timer_enabled =>
                      r.turn_state = TURN_STATE_FINISHED /\ r.turns_completed
               /\ r.last_status_message = NoMessage

\* A game just started without a timer, a bot among its players.
StartedWithoutTimer ==
    /\ HasRoom
    /\ TheRoom.state = ROOM_STATE_STARTED
    /\ ~TheRoom.timer_enabled
    /\ TheRoom.turn_state = TURN_STATE_FINISHED
    /\ TheRoom.players_order = TheRoom.players
    /\ \E p \in Range(TheRoom.players) : EntryIsBot(p)
    /\ TheRoom.last_status_message = NoMessage

\* The call times of the turn clock example, 5.2 s, 11.0 s and 20.1 s, in ticks.
CallTime(tenths) == (tenths * TicksPerSecond) \div 10
FirstCall == CallTime(52)
SecondCall == CallTime(110)
ThirdCall == CallTime(201)

\* x is a game with a running turn, y the same game after the clock was advanced
\* at the current time, start_index the seat the loop began on at time 0.
DriftFree(x, y, start_index) ==
    LET period == Seconds(x.turn_time_seconds)
        s == x.turn_started_at
        n == Len(x.players_order)
        k == (now - s) \div period
    IN /\ s % period = 0
       /\ now - s < period => y = x
       /\ now - s >= period =>
              /\ y.current_turn_index = (x.current_turn_index + k) % n
              /\ y.turn_started_at = s + k * period
              /\ y = [x EXCEPT !.current_turn_index = y.current_turn_index,
                               !.turn_started_at = y.turn_started_at]
       /\ 0 <= now - y.turn_started_at
       /\ now - y.turn_started_at < period
       /\ y.turn_started_at % period = 0
       /\ (n = 4 /\ start_index = 0 /\ x.turn_time_seconds = 5) =>
              /\ now = FirstCall => y.current_turn_index = 1
              /\ now = SecondCall => y.current_turn_index = 2
              /\ now = ThirdCall => y.current_turn_index = 0

RoomTurnRunning(r) ==
    /\ r.state = ROOM_STATE_STARTED
    /\ r.turn_state = TURN_STATE_ACTIVE
    /\ r.turn_active
    /\ r.turn_started_at # None

SessionTurnRunning(x) ==
    x.state = TURN_STATE_ACTIVE /\ x.turn_active /\ x.turn_started_at # None

TheGame == offline_sessions[TheSession]
HasGame == TheGame # NoSession

\* C5: turn advancement is drift-free, for rooms and offline sessions: before a
\* whole period has passed nothing changes; afterwards the index moves by the
\* whole periods elapsed, modulo the length of the turn order, and
\* turn_started_at moves by the same number of periods, so that it stays a
\* multiple of the period after the origin and ends less than a period behind
\* the clock. With T = 5 and four seats from index 0, calls at 5.2, 11.0 and
\* 20.1 seconds give the indices 1, 2, 0.
TurnClockDriftFree ==
    /\ (HasRoom /\ RoomTurnRunning(TheRoom)) =>
           DriftFree(TheRoom, AdvanceRoomTurn(TheRoom, now),
                     IndexOf(TheRoom.players_order, TheRoom.starter_user_id))
    /\ (HasGame /\ SessionTurnRunning(TheGame)) =>
           DriftFree(TheGame,
                     OfflineTurnStatus(offline_sessions, now, TheSession,
                                       TheGame.owner_user_id).sessions[TheSession],
                     TheGame.starter_player_number - 1)

\* The session of the example after its third poll, at 20.1 seconds.
ThirdPollDone ==
    /\ HasGame
    /\ TheGame.player_count = 4
    /\ TheGame.starter_player_number = 1
    /\ now = ThirdCall
    /\ TheGame.current_turn_index = 0
    /\ TheGame.turn_started_at = 4 * Seconds(TheGame.turn_time_seconds)

\* q is the room r after a removal.
PausedAfterRemoval(r, q) ==
    /\ 0 <= q.current_turn_index
    /\ q.current_turn_index < Len(r.players_order) - 1
    /\ q.state = ROOM_STATE_PAUSED
    /\ ~q.turn_active
    /\ q.turn_started_at = None

\* C6: removing a participant, by leave or by the stale drop, from a Started or
\* Paused room with n >= 2 seats in its turn order leaves current_turn_index in
\* [0, n-1) and the room Paused with turn_active false and no turn_started_at;
\* so for the participant at current_turn_index of a four-seat started game.
RemovalPausesGame ==
    (HasRoom /\ TheRoom.state \in {ROOM_STATE_STARTED, ROOM_STATE_PAUSED}
             /\ Len(TheRoom.players_order) >= 2) =>
        /\ \A p \in Range(TheRoom.players) :
               PausedAfterRemoval(TheRoom, RemoveRoomParticipant(TheRoom, p, "left"))
        /\ \A u \in RealIds :
               LET out == RoomLeave(rooms, now, TheCode, u)
               IN (Contains(TheRoom.players, u) /\ out.rooms[TheCode] # NoRoom) =>
                      PausedAfterRemoval(TheRoom, out.rooms[TheCode])
        /\ StaleUserIds(TheRoom, now) # <<>> =>
               PausedAfterRemoval(TheRoom, DropStaleRoomPlayers(TheRoom, now).room)

\* A started game of four with a running turn, the pointer on the last seat.
FourSeatGameOnLastSeat ==
    /\ HasRoom
    /\ TheRoom.state = ROOM_STATE_STARTED
    /\ Len(TheRoom.players_order) = 4
    /\ TheRoom.turn_active
    /\ TheRoom.current_turn_index = 3

\* C9: a create request never returns the code of a live room and leaves every
\* live room as it was, also when the longer fallback code is used.
CreateKeepsLiveRooms ==
    \A u \in CodesUsers, draws \in CodeDraws, long \in LongCodes :
        LET rs == CleanupRooms(rooms, now)
            out == RoomCreate(rooms, now, u, "online", "standard", NoList, MIN_PLAYERS, FALSE,
                              None, draws, long)
        IN out.res = OK =>
               /\ GenerateRoomCode(rs, draws, long) \notin Live(rs)
               /\ \A c \in Live(rs) : out.rooms[c] = rs[c]

\* C10: the sweep removes a room older than APP_TTL_MINUTES if and only if the
\* room is Waiting: a Waiting room answers its members at the age of TTL - 1
\* minutes and is gone for everyone at TTL + 1 minutes; a Started or Paused
\* room of any age is left alone by the sweep and answers its members.
SweepOnlyWaiting ==
    \A c \in Live(rooms) :
        LET r == rooms[c]
            age == now - r.created_at
            members == {u \in RealIds : Contains(r.players, u)}
        IN /\ CleanupRooms(rooms, now)[c] = NoRoom <=>
                  (age > Minutes(APP_TTL_MINUTES) /\ r.state = ROOM_STATE_WAITING)
           /\ (r.state = ROOM_STATE_WAITING /\ age = Minutes(APP_TTL_MINUTES - 1)) =>
                  \A u \in members : RoomStatus(rooms, now, c, u).res = OK
           /\ (r.state = ROOM_STATE_WAITING /\ age = Minutes(APP_TTL_MINUTES + 1)) =>
                  \A u \in RealIds :
                      /\ RoomStatus(rooms, now, c, u).res = NotFound
                      /\ RoomStatus(rooms, now, c, u).rooms[c] = NoRoom
           /\ r.state \in {ROOM_STATE_STARTED, ROOM_STATE_PAUSED} =>
                  /\ CleanupRooms(rooms, now)[c] = r
                  /\ \A u \in members : RoomStatus(rooms, now, c, u).res = OK

\* A game older than the time-to-live that a request has just found in place
\* and paused.
OldGameSpared ==
    /\ HasRoom
    /\ TheRoom.state = ROOM_STATE_PAUSED
    /\ now - TheRoom.created_at > Minutes(APP_TTL_MINUTES)
    /\ \E u \in DOMAIN TheRoom.last_seen_by_user : TheRoom.last_seen_by_user[u] = now

\* C11: in a session that is Revealing with the pointer on seat k of n, the
\* owner's close answers finished=false with next seat k+1 when k < n and moves
\* only the pointer; when k = n it answers finished=true with a starter seat in
\* [1, n], records that starter and sets the state to Finished without the timer
\* and to ReadyToStart with it. The owner's reveal answers with seat k, the
\* card dealt to it and the role spy exactly for a spy seat, and leaves the
\* sessions as they are.
RevealPhaseContract ==
    (HasGame /\ TheGame.state = OFFLINE_STATE_REVEALING) =>
        LET k == TheGame.current_player_number
            n == TheGame.player_count
            rv == OfflineReveal(offline_sessions, now, TheSession, TheGame.owner_user_id)
        IN /\ 1 <= k /\ k <= n
           /\ \A out \in OfflineClose(offline_sessions, now, TheSession, TheGame.owner_user_id) :
                  /\ out.res = OK
                  /\ k < n =>
                         /\ ~out.finished
                         /\ out.current_player_number = k + 1
                         /\ out.sessions =
                                [offline_sessions EXCEPT
                                    ![TheSession].current_player_number = k + 1]
                  /\ k = n =>
                         /\ out.finished
                         /\ out.starter_player_number \in 1..n
                         /\ out.sessions[TheSession].starter_player_number
                                = out.starter_player_number
                         /\ out.sessions[TheSession].current_player_number = n
                         /\ out.sessions[TheSession].state =
                                IF TheGame.timer_enabled THEN TURN_STATE_READY_TO_START
                                ELSE TURN_STATE_FINISHED
           /\ rv.res = OK
           /\ rv.sessions = offline_sessions
           /\ rv.player_number = k
           /\ rv.card = TheGame.cards_for_players[k]
           /\ (rv.role = "spy") <=> (k \in TheGame.spy_players)
           /\ (rv.role = "card") <=> (k \notin TheGame.spy_players)

\* The scenario's session after its fourth close: four seats, no timer, Finished.
FourthCloseDone ==
    /\ HasGame
    /\ TheGame.player_count = 4
    /\ TheGame.game_mode = "standard"
    /\ ~TheGame.timer_enabled
    /\ TheGame.current_player_number = 4
    /\ TheGame.state = TURN_STATE_FINISHED
    /\ TheGame.starter_player_number \in 1..4

\* The place of a session state in Revealing < ReadyToStart < TurnLoopActive < Finished.
StateRank(state) ==
    CASE state = OFFLINE_STATE_REVEALING -> 0
      [] state = TURN_STATE_READY_TO_START -> 1
      [] state = TURN_STATE_ACTIVE -> 2
      [] OTHER -> 3

\* C12: a step that does not return the session to Revealing (restart) never
\* lowers the session's state in Revealing < ReadyToStart < TurnLoopActive <
\* Finished, and once the reveal phase is over it keeps the starter seat.
SessionNeverBackward ==
    [][(HasGame /\ offline_sessions'[TheSession] # NoSession
            /\ offline_sessions'[TheSession].state # OFFLINE_STATE_REVEALING) =>
          /\ StateRank(offline_sessions'[TheSession].state) >= StateRank(TheGame.state)
          /\ TheGame.state # OFFLINE_STATE_REVEALING =>
                 offline_sessions'[TheSession].starter_player_number
                    = TheGame.starter_player_number]_vars

\* C13: every room of the table, and every room of the table a room handler
\* leaves behind, has at least one real (non-bot) participant; a leave of the
\* last real participant destroys the room even when bots remain.
RoomsKeepRealPlayer ==
    /\ \A c \in Live(rooms) : RealRoomPlayerIds(rooms[c]) # <<>>
    /\ \A out \in RoomResponses :
           \A c \in Live(out.rooms) : RealRoomPlayerIds(out.rooms[c]) # <<>>
    /\ \A u \in RealIds :
           (HasRoom /\ RealRoomPlayerIds(TheRoom) = <<u>>) =>
               RoomLeave(rooms, now, TheCode, u).rooms[TheCode] = NoRoom

\* A room of one user and bots, destroyed by the user's leave.
LastRealPlayerLeavesBots ==
    /\ HasRoom
    /\ \E p \in Range(TheRoom.players) : EntryIsBot(p)
    /\ \E u \in RealIds :
           /\ RealRoomPlayerIds(TheRoom) = <<u>>
           /\ RoomLeave(rooms, now, TheCode, u).rooms[TheCode] = NoRoom

\* The responses of the handlers that run the stale drop, over the callers of Next.
StaleDropResponses ==
    UNION {
        {RoomJoin(rooms, now, TheCode, u), RoomStatus(rooms, now, TheCode, u),
         RoomHeartbeat(rooms, now, TheCode, u), RoomRole(rooms, now, TheCode, u),
         RoomTurnStart(rooms, now, TheCode, u), RoomTurnFinish(rooms, now, TheCode, u),
         RoomResume(rooms, now, TheCode, u)}
        \cup RoomStart(rooms, now, TheCode, u, all_cards)
        \cup RoomRestart(rooms, now, TheCode, u, all_cards) : u \in RealIds}

\* Times of a stale drop: now, past the staleness horizon, and close to the TTL.
LaterTimes == {now, now + Seconds(HEARTBEAT_STALE_SECONDS + 1), now + Minutes(APP_TTL_MINUTES - 1)}

\* C14: while a room is Waiting the stale drop at any later time leaves the room
\* as it is and reports "do not delete", and no handler that runs the stale drop
\* removes a participant or destroys the room, however old the heartbeats are.
WaitingRoomNeverDrops ==
    (HasRoom /\ TheRoom.state = ROOM_STATE_WAITING) =>
        /\ \A t \in LaterTimes :
               DropStaleRoomPlayers(TheRoom, t) = [room |-> TheRoom, del |-> FALSE]
        /\ \A out \in StaleDropResponses :
               /\ out.rooms[TheCode] # NoRoom
               /\ \A i \in 1..Len(TheRoom.players) :
                      out.rooms[TheCode].players[i] = TheRoom.players[i]

\* A waiting room in which a request was served at a time when another
\* participant's heartbeat was already stale, and that participant is still there.
StaleMemberKeptWhileWaiting ==
    /\ HasRoom
    /\ TheRoom.state = ROOM_STATE_WAITING
    /\ now > 0
    /\ \E u, v \in Range(TheRoom.players) :
           /\ u \in DOMAIN TheRoom.last_seen_by_user
           /\ now - TheRoom.last_seen_by_user[u] > Seconds(HEARTBEAT_STALE_SECONDS)
           /\ v \in DOMAIN TheRoom.last_seen_by_user
           /\ TheRoom.last_seen_by_user[v] = now

\* The participants of r whose last heartbeat is more than the horizon old at t.
StaleSet(r, t) ==
    {u \in Range(r.players) :
        u \in DOMAIN r.last_seen_by_user
        /\ t - r.last_seen_by_user[u] > Seconds(HEARTBEAT_STALE_SECONDS)}

\* The times a drop is probed at: now, and for every heartbeat the horizon
\* exactly and one tick past it.
ProbeTimes(r) ==
    {now}
    \cup {r.last_seen_by_user[u] + Seconds(HEARTBEAT_STALE_SECONDS) :
            u \in DOMAIN r.last_seen_by_user}
    \cup {r.last_seen_by_user[u] + Seconds(HEARTBEAT_STALE_SECONDS) + 1 :
            u \in DOMAIN r.last_seen_by_user}

\* d is the outcome of the stale drop on room r at time t.
DropIsExact(r, t, d) ==
    /\ d.room.players = SelectSeq(r.players, LAMBDA p : p \notin StaleSet(r, t))
    /\ DOMAIN d.room.last_seen_by_user = (DOMAIN r.last_seen_by_user) \ StaleSet(r, t)
    /\ StaleSet(r, t) = {} => d.room = r
    /\ StaleSet(r, t) # {} =>
           /\ d.room.state = ROOM_STATE_PAUSED
           /\ ~d.room.turn_active
           /\ d.room.turn_started_at = None
    /\ \A u \in Range(r.players) :
           StaleSet(r, t) = {u} => d.room = RemoveRoomParticipant(r, u, "left")
    /\ d.del <=> (RealRoomPlayerIds(d.room) = <<>>)

\* C15: in a Started or Paused room the stale drop removes exactly the
\* participants whose heartbeat is more than HEARTBEAT_STALE_SECONDS old, by the
\* removal path of a leave (the room is Paused afterwards), keeps everyone whose
\* heartbeat is at most that old, and reports true exactly when no real
\* participant is left; a handler that runs it after touching its caller leaves
\* that roster in the table, or no room when the drop reported true.
StaleDropExact ==
    (HasRoom /\ TheRoom.state \in {ROOM_STATE_STARTED, ROOM_STATE_PAUSED}) =>
        /\ \A t \in ProbeTimes(TheRoom) :
               DropIsExact(TheRoom, t, DropStaleRoomPlayers(TheRoom, t))
        /\ \A u \in RealIds :
               LET touched == TouchRoomUser(TheRoom, u, now)
                   kept == SelectSeq(touched.players,
                                     LAMBDA p : p \notin StaleSet(touched, now))
                   after == RoomTurnFinish(rooms, now, TheCode, u).rooms[TheCode]
               IN IF SelectSeq(kept, IsRealId) = <<>> THEN after = NoRoom
                  ELSE /\ after # NoRoom
                       /\ after.players = kept
                       /\ StaleSet(touched, now) # {} => after.state = ROOM_STATE_PAUSED

\* A game in which one user's heartbeat is stale while another user's is of now.
StaleAmongFresh ==
    /\ HasRoom
    /\ TheRoom.state \in {ROOM_STATE_STARTED, ROOM_STATE_PAUSED}
    /\ StaleSet(TheRoom, now) # {}
    /\ \E v \in Range(TheRoom.players) \ StaleSet(TheRoom, now) :
           IsRealId(v) /\ TheRoom.last_seen_by_user[v] = now

\* C16: resume succeeds only for the owner and only on a Paused room; it leaves
\* the room Started and, when turn_state is TurnLoopActive, turn_active set and
\* turn_started_at at the time of the resume; the owner's resume of a Waiting
\* or Started room is answered InvalidState.
ResumeOnlyFromPaused ==
    HasRoom =>
        \A u \in RealIds :
            LET out == RoomResume(rooms, now, TheCode, u)
            IN /\ out.res = OK =>
                      /\ u = TheRoom.owner_user_id
                      /\ TheRoom.state = ROOM_STATE_PAUSED
                      /\ out.rooms[TheCode].state = ROOM_STATE_STARTED
                      /\ TheRoom.turn_state = TURN_STATE_ACTIVE =>
                             /\ out.rooms[TheCode].turn_active
                             /\ out.rooms[TheCode].turn_started_at = now
               /\ (u = TheRoom.owner_user_id
                     /\ TheRoom.state \in {ROOM_STATE_WAITING, ROOM_STATE_STARTED}) =>
                      out.res = InvalidState

\* C17: while a room is Paused every turn/start is answered InvalidState and
\* leaves turn_state, turn_active and turn_started_at as they were; the owner's
\* turn/finish on a Started or Paused room with the timer succeeds and leaves
\* turn_state Finished, turn_active false, no turn_started_at and
\* turns_completed true.
TurnStartFinishContract ==
    HasRoom =>
        /\ TheRoom.state = ROOM_STATE_PAUSED =>
               \A u \in RealIds :
                   LET out == RoomTurnStart(rooms, now, TheCode, u)
                   IN /\ out.res = InvalidState
                      /\ out.rooms[TheCode] # NoRoom
                      /\ out.rooms[TheCode].turn_state = TheRoom.turn_state
                      /\ out.rooms[TheCode].turn_active = TheRoom.turn_active
                      /\ out.rooms[TheCode].turn_started_at = TheRoom.turn_started_at
        /\ (TheRoom.state \in {ROOM_STATE_STARTED, ROOM_STATE_PAUSED} /\ TheRoom.timer_enabled) =>
               LET out == RoomTurnFinish(rooms, now, TheCode, TheRoom.owner_user_id)
               IN /\ out.res = OK
                  /\ out.rooms[TheCode].turn_state = TURN_STATE_FINISHED
                  /\ ~out.rooms[TheCode].turn_active
                  /\ out.rooms[TheCode].turn_started_at = None
                  /\ out.rooms[TheCode].turns_completed

\* The first real participant after seat holder o in the turn order, going round;
\* None when the order holds no other real participant.
NextRealInOrder(order, o) ==
    LET i == IF Contains(order, o) THEN IndexOf(order, o) + 1 ELSE 0
        round == SubSeq(order, i + 1, Len(order)) \o SubSeq(order, 1, i - 1)
        reals == SelectSeq(round, IsRealId)
    IN IF reals = <<>> THEN None ELSE reals[1]

\* C18: the owner of a room is a real participant of its roster; when the owner
\* is removed and a real participant remains, the new owner is the next real
\* participant in turn order, or a real participant of the roster when the turn
\* order holds none, never a bot and never the removed identifier, and the
\* owner's leave stores that owner in the table.
OwnershipPasses ==
    HasRoom =>
        LET o == TheRoom.owner_user_id
            q == RemoveRoomParticipant(TheRoom, o, "left")
            next == NextRealInOrder(TheRoom.players_order, o)
        IN /\ IsRealId(o)
           /\ Contains(TheRoom.players, o)
           /\ RealRoomPlayerIds(q) # <<>> =>
                  /\ q.owner_user_id # o
                  /\ IsRealId(q.owner_user_id)
                  /\ Contains(q.players, q.owner_user_id)
                  /\ q.owner_name = DisplayName(q.owner_user_id)
                  /\ next # None => q.owner_user_id = next
                  /\ RoomLeave(rooms, now, TheCode, o).rooms[TheCode] = q

\* A paused game with a bot whose creator left: the ownership has passed on.
OwnershipPassedInGame ==
    /\ HasRoom
    /\ TheRoom.state = ROOM_STATE_PAUSED
    /\ TheRoom.owner_user_id \notin CreatorIds
    /\ \E p \in Range(TheRoom.players) : EntryIsBot(p)
    /\ \A c \in CreatorIds : ~Contains(TheRoom.players, c)

\* C19: a join of a room that is not Waiting is rejected; a join of a full
\* Waiting room by a caller outside the roster is rejected and leaves the
\* roster as it is; a join by a member of a Waiting room succeeds, also when the
\* room is full, and leaves the roster as it is; a second join after a
\* successful one succeeds and changes nothing.
JoinContract ==
    HasRoom =>
        \A u \in RealIds :
            LET out == RoomJoin(rooms, now, TheCode, u)
                again == RoomJoin(out.rooms, now, TheCode, u)
                full == Len(TheRoom.players) >= TheRoom.player_limit
            IN /\ TheRoom.state # ROOM_STATE_WAITING => out.res \in Errors
               /\ (TheRoom.state = ROOM_STATE_WAITING /\ full
                     /\ ~Contains(TheRoom.players, u)) =>
                      /\ out.res = InvalidState
                      /\ out.rooms[TheCode].players = TheRoom.players
               /\ (TheRoom.state = ROOM_STATE_WAITING /\ Contains(TheRoom.players, u)) =>
                      /\ out.res = OK
                      /\ out.rooms[TheCode].players = TheRoom.players
               /\ (TheRoom.state = ROOM_STATE_WAITING /\ ~full
                     /\ ~Contains(TheRoom.players, u)) =>
                      /\ out.res = OK
                      /\ out.rooms[TheCode].players = Append(TheRoom.players, u)
               /\ out.res = OK => (again.res = OK /\ again.rooms = out.rooms)

\* A full waiting room in which a member other than the owner was served after
\* the clock moved, with a user left outside.
FullRoomServedMember ==
    /\ HasRoom
    /\ TheRoom.state = ROOM_STATE_WAITING
    /\ Len(TheRoom.players) = TheRoom.player_limit
    /\ now > 0
    /\ \E v \in Range(RealRoomPlayerIds(TheRoom)) \ {TheRoom.owner_user_id} :
           TheRoom.last_seen_by_user[v] = now
    /\ \E u \in RealIds : ~Contains(TheRoom.players, u)

\* C20: the owner's restart of a room whose roster has at least MIN_PLAYERS
\* members succeeds from Waiting, Started and Paused: roles are dealt to the
\* whole current roster, players_order is the roster in its order, the starter
\* is a roster member and current_turn_index its position, and the room is
\* Started with turn_active false.
RestartFromEveryState ==
    (HasRoom /\ Len(TheRoom.players) >= MIN_PLAYERS) =>
        \A out \in RoomRestart(rooms, now, TheCode, TheRoom.owner_user_id, all_cards) :
            /\ out.res = OK
            /\ LET r == out.rooms[TheCode]
               IN /\ r.state = ROOM_STATE_STARTED
                  /\ r.players = TheRoom.players
                  /\ r.players_order = r.players
                  /\ DOMAIN r.cards_by_user = Range(r.players)
                  /\ r.spy_user_ids \subseteq Range(r.players)
                  /\ Contains(r.players, r.starter_user_id)
                  /\ r.current_turn_index = IndexOf(r.players, r.starter_user_id)
                  /\ ~r.turn_active

\* C21: the owner's restart of a session in any state answers OK with one of the
\* deals of the session's mode over seats 1..player_count, the pointer on seat
\* 1, state Revealing, no starter, turn_active false, no turn_started_at,
\* turns_completed false and current_turn_index 0, and with the session id,
\* owner, player count, game mode, allowed scenarios and timer settings kept.
RestartResetsSession ==
    HasGame =>
        LET x == TheGame
            outs == OfflineRestart(offline_sessions, now, TheSession, x.owner_user_id, all_cards)
            deals == DealRoles(Seats(x.player_count), x.game_mode,
                               IF x.random_allowed_modes = <<>> THEN NoList
                               ELSE x.random_allowed_modes, all_cards)
        IN /\ {[spies |-> out.sessions[TheSession].spy_players,
                 cards |-> out.sessions[TheSession].cards_for_players,
                 resolved |-> out.sessions[TheSession].resolved_random_mode] : out \in outs}
                = {[spies |-> d.spies, cards |-> d.cards, resolved |-> d.resolved] : d \in deals}
           /\ \A out \in outs :
                  LET y == out.sessions[TheSession]
                  IN /\ out.res = OK
                     /\ DOMAIN y.cards_for_players = 1..x.player_count
                     /\ y.spy_players \subseteq 1..x.player_count
                     /\ y.current_player_number = 1
                     /\ y.state = OFFLINE_STATE_REVEALING
                     /\ y.starter_player_number = None
                     /\ ~y.turn_active
                     /\ y.turn_started_at = None
                     /\ ~y.turns_completed
                     /\ y.current_turn_index = 0
                     /\ y.session_id = x.session_id
                     /\ y.owner_user_id = x.owner_user_id
                     /\ y.player_count = x.player_count
                     /\ y.game_mode = x.game_mode
                     /\ y.random_allowed_modes = x.random_allowed_modes
                     /\ y.timer_enabled = x.timer_enabled
                     /\ y.turn_time_seconds = x.turn_time_seconds

\* A random-mode session in its running turn loop, the pointer off seat 0.
RunningLoopToRestart ==
    /\ HasGame
    /\ TheGame.game_mode = "random"
    /\ TheGame.state = TURN_STATE_ACTIVE
    /\ TheGame.turn_active
    /\ TheGame.turn_started_at # None
    /\ TheGame.current_turn_index > 0
    /\ TheGame.starter_player_number # None

\* The responses of the offline handlers to caller u at time t.
OfflineCalls(t, u) ==
    {OfflineReveal(offline_sessions, t, TheSession, u),
     OfflineTurnStatus(offline_sessions, t, TheSession, u),
     OfflineTurnStart(offline_sessions, t, TheSession, u),
     OfflineTurnFinish(offline_sessions, t, TheSession, u)}
    \cup OfflineClose(offline_sessions, t, TheSession, u)
    \cup OfflineRestart(offline_sessions, t, TheSession, u, all_cards)

\* The current time and the first tick after the session's time-to-live.
ExpiryTimes ==
    {now} \cup (IF HasGame THEN {TheGame.created_at + Minutes(APP_TTL_MINUTES) + 1} ELSE {})

\* C22: reveal, close, restart, turn status, turn start and turn finish answer
\* NotFound when the session id is unknown or the session has expired, and
\* Forbidden when the caller is not the owner of a live session; the Forbidden
\* answer leaves the session as it was.
OfflineGuardContract ==
    \A t \in ExpiryTimes, u \in RealIds : \A out \in OfflineCalls(t, u) :
        IF ~HasGame \/ Expired(TheGame.created_at, t)
        THEN out.res = NotFound /\ out.sessions[TheSession] = NoSession
        ELSE IF u # TheGame.owner_user_id
        THEN out.res = Forbidden /\ out.sessions[TheSession] = TheGame
        ELSE out.res \notin {NotFound, Forbidden}

\* A session with its turn loop ready, which every handler but reveal would
\* change for its owner.
ReadySessionForStranger ==
    /\ HasGame
    /\ TheGame.state = TURN_STATE_READY_TO_START
    /\ \E u \in RealIds : u # TheGame.owner_user_id

\* C23: the owner's turn start answers OK exactly when the timer is enabled and
\* the state is ReadyToStart or TurnLoopActive, and then the session is in
\* TurnLoopActive with turn_active true and turn_started_at set; in every
\* other case (timer disabled, Revealing, Finished) it fails and the state is
\* what it was.
OfflineTurnStartContract ==
    HasGame =>
        LET x == TheGame
            out == OfflineTurnStart(offline_sessions, now, TheSession, x.owner_user_id)
            y == out.sessions[TheSession]
        IN IF x.timer_enabled /\ x.state \in {TURN_STATE_READY_TO_START, TURN_STATE_ACTIVE}
           THEN /\ out.res = OK
                /\ y.state = TURN_STATE_ACTIVE
                /\ y.turn_active
                /\ y.turn_started_at # None
           ELSE /\ out.res = InvalidState
                /\ y.state = x.state

\* The turn loop of a session was started from ReadyToStart at the current time.
SessionLoopJustStarted ==
    /\ HasGame
    /\ TheGame.timer_enabled
    /\ SessionTurnRunning(TheGame)
    /\ TheGame.turn_started_at = now
    /\ now > 0

\* C24: the owner's turn finish answers OK exactly when the timer is enabled and
\* the state is not Revealing, and then the session is Finished with
\* turn_active false, no turn_started_at and turns_completed true; with the
\* timer disabled or in Revealing it fails and the session is unchanged.
OfflineTurnFinishContract ==
    HasGame =>
        LET x == TheGame
            out == OfflineTurnFinish(offline_sessions, now, TheSession, x.owner_user_id)
            y == out.sessions[TheSession]
        IN IF x.timer_enabled /\ x.state # OFFLINE_STATE_REVEALING
           THEN /\ out.res = OK
                /\ y.state = TURN_STATE_FINISHED
                /\ ~y.turn_active
                /\ y.turn_started_at = None
                /\ y.turns_completed
           ELSE /\ out.res = InvalidState
                /\ y = x

\* A timed session finished by its owner: only the turn finish completes the turns.
SessionLoopFinished ==
    /\ HasGame
    /\ TheGame.timer_enabled
    /\ TheGame.state = TURN_STATE_FINISHED
    /\ TheGame.turns_completed
    /\ ~TheGame.turn_active
    /\ TheGame.turn_started_at = None

\* The timer settings of a stored room or session are valid.
TimerValid(g) ==
    IF g.timer_enabled
    THEN g.turn_time_seconds # None
         /\ MIN_TURN_TIME_SECONDS <= g.turn_time_seconds
         /\ g.turn_time_seconds <= MAX_TURN_TIME_SECONDS
    ELSE g.turn_time_seconds = None

\* The timer settings a creation request tm = <<enabled, seconds>> must store.
OutOfRange(tm) ==
    tm[1] /\ tm[2] # None
          /\ (tm[2] < MIN_TURN_TIME_SECONDS \/ tm[2] > MAX_TURN_TIME_SECONDS)
StoredSeconds(tm) ==
    IF ~tm[1] THEN None ELSE IF tm[2] = None THEN DEFAULT_TURN_TIME_SECONDS ELSE tm[2]

\* C25: every stored room and offline session has valid timer settings: with the
\* timer enabled turn_time_seconds lies in [5, 30], with the timer disabled it
\* is absent. A creation request with the timer enabled and a duration outside
\* [5, 30] answers InvalidConfiguration and stores nothing; any other creation
\* request stores the requested duration, 8 when it was omitted.
TimerConfigValid ==
    /\ HasRoom => TimerValid(TheRoom)
    /\ HasGame => TimerValid(TheGame)
    /\ NothingLive =>
          \A tm \in TimerRequests, u \in CreatorIds :
             /\ LET out == RoomCreate(rooms, now, u, "online", "standard", NoList, MIN_PLAYERS,
                                      tm[1], tm[2], [i \in 1..CodeAttempts |-> TheCode],
                                      "CCCCCCCC")
                IN IF OutOfRange(tm)
                   THEN out.res = InvalidConfiguration /\ out.rooms = EmptyRooms
                   ELSE /\ out.res = OK
                        /\ out.rooms[TheCode].timer_enabled = tm[1]
                        /\ out.rooms[TheCode].turn_time_seconds = StoredSeconds(tm)
             /\ \A out \in OfflineStart(offline_sessions, now, u, "standard", MIN_PLAYERS, NoList,
                                         tm[1], tm[2], TheSession, all_cards) :
                   IF OutOfRange(tm)
                   THEN out.res = InvalidConfiguration /\ out.sessions = EmptySessions
                   ELSE /\ out.res = OK
                        /\ out.sessions[TheSession].timer_enabled = tm[1]
                        /\ out.sessions[TheSession].turn_time_seconds = StoredSeconds(tm)

\* A started room whose creator enabled the timer and omitted the duration.
DefaultTimerInGame ==
    /\ HasRoom
    /\ TheRoom.state = ROOM_STATE_STARTED
    /\ TheRoom.timer_enabled
    /\ TheRoom.turn_time_seconds = DEFAULT_TURN_TIME_SECONDS
    /\ TheRoom.turn_state = TURN_STATE_ACTIVE

\* The players of a deal who hold no card, and the cards the others hold.
Cardless(cards) == {p \in DOMAIN cards : cards[p] = NoCard}
CardsHeld(cards) == {cards[p] : p \in DOMAIN cards} \ {NoCard}

\* d is a deal over P with exactly the spies without a card and every other
\* player holding the same card of the catalog.
OneSecretDeal(d, P, catalog) ==
    /\ ~d.err
    /\ DOMAIN d.cards = P
    /\ d.spies \subseteq P
    /\ Cardless(d.cards) = d.spies
    /\ d.spies # P => \E card \in catalog : CardsHeld(d.cards) = {card}

\* C26: for every player count from 3 to 12 a standard deal has exactly one
\* spy, one of the players, who holds no card, while the other n-1 players
\* hold one and the same card of the catalog, and no scenario is resolved;
\* every stored standard session holds such a deal.
StandardDealShape ==
    /\ (HasGame /\ TheGame.game_mode = "standard") =>
           /\ OneSecretDeal([err |-> FALSE, spies |-> TheGame.spy_players,
                              cards |-> TheGame.cards_for_players],
                             1..TheGame.player_count, all_cards)
           /\ Cardinality(TheGame.spy_players) = 1
           /\ Cardinality(DOMAIN TheGame.cards_for_players \ TheGame.spy_players) = TheGame.player_count - 1
           /\ TheGame.resolved_random_mode = "none"
    /\ NothingLive =>
           \A n \in DealSeats : \A d \in DealRoles(Seats(n), "standard", NoList, all_cards) :
               /\ OneSecretDeal(d, 1..n, all_cards)
               /\ Cardinality(d.spies) = 1
               /\ Cardinality((1..n) \ Cardless(d.cards)) = n - 1
               /\ d.resolved = "none"

\* A standard session of MAX_PLAYERS seats dealt from the two-card catalog,
\* the last seat the spy.
TwelveSeatStandardDeal ==
    /\ HasGame
    /\ TheGame.game_mode = "standard"
    /\ TheGame.player_count = MAX_PLAYERS
    /\ Cardinality(all_cards) = 2
    /\ TheGame.spy_players = {MAX_PLAYERS}

\* The candidate scenarios of a random deal over n players: the supplied list
\* intersected with the known scenarios, every known scenario when no list was
\* supplied, without multi_spy for n <= 3 and without one_outlier_card for n < 2.
ListedCandidates(n, allowed) ==
    LET listed == IF allowed = NoList THEN KnownScenarios
                  ELSE Range(allowed) \cap KnownScenarios
        many == IF n <= 3 THEN listed \ {"multi_spy"} ELSE listed
    IN IF n < 2 THEN many \ {"one_outlier_card"} ELSE many

\* The player counts of the deals examined, below MIN_PLAYERS as well.
DealCounts == 1..MAX_PLAYERS
DealLists == {mode[2] : mode \in {m \in DealModes : m[1] = "random"}}

\* C27: a random deal resolves to a scenario of the candidate set, and fails
\* when the candidate set is empty; a stored random session holds a scenario of
\* the candidate set of its list, and offline start answers InvalidConfiguration
\* when the candidate set of the request is empty.
ScenarioAmongListed ==
    /\ (HasGame /\ TheGame.game_mode = "random") =>
           TheGame.resolved_random_mode
               \in ListedCandidates(TheGame.player_count,
                                    IF TheGame.random_allowed_modes = <<>> THEN NoList
                                    ELSE TheGame.random_allowed_modes)
    /\ NothingLive =>
           \A n \in DealCounts, allowed \in DealLists :
               /\ \A d \in DealRoles(Seats(n), "random", allowed, all_cards) :
                      IF ListedCandidates(n, allowed) = {} THEN d.err
                      ELSE ~d.err => d.resolved \in ListedCandidates(n, allowed)
               /\ (n \in DealSeats /\ ListedCandidates(n, allowed) = {}) =>
                      \A out \in OfflineStart(offline_sessions, now, 1, "random", n, allowed,
                                               FALSE, None, TheSession, all_cards) :
                          out.res = InvalidConfiguration

\* The number of spies of a multi_spy deal over n players.
SpyTable(n) == IF n <= 3 THEN 1 ELSE IF n <= 6 THEN 2 ELSE 3

\* C28: a multi_spy deal over n players, for every n from 3 to 12, has exactly
\* SpyTable(n) distinct spies (1 for 3, 2 for 4 to 6, 3 for 7 to 12), the
\* spies hold no card and all the other players hold one and the same card;
\* every stored session resolved to multi_spy holds such a deal.
MultiSpyDealShape ==
    /\ (HasGame /\ TheGame.resolved_random_mode = "multi_spy") =>
           /\ Cardinality(TheGame.spy_players) = SpyTable(TheGame.player_count)
           /\ TheGame.spy_players # 1..TheGame.player_count
           /\ OneSecretDeal([err |-> FALSE, spies |-> TheGame.spy_players,
                              cards |-> TheGame.cards_for_players],
                             1..TheGame.player_count, all_cards)
    /\ NothingLive =>
           \A n \in DealSeats :
               /\ multiple_spies_count(n) = SpyTable(n)
               /\ \A d \in DealScenario(1..n, "multi_spy", all_cards, "multi_spy") :
                      /\ Cardinality(d.spies) = SpyTable(n)
                      /\ d.spies # 1..n
                      /\ OneSecretDeal(d, 1..n, all_cards)

\* A session of MAX_PLAYERS seats resolved to multi_spy, three spies among them.
TwelveSeatMultiSpyDeal ==
    /\ HasGame
    /\ TheGame.resolved_random_mode = "multi_spy"
    /\ TheGame.player_count = MAX_PLAYERS
    /\ TheGame.spy_players = {1, MAX_PLAYERS - 1, MAX_PLAYERS}

\* d is a deal over P without spies in which exactly one player holds a card
\* different from the one card of all the others.
OneOutlierDeal(d, P, catalog) ==
    /\ ~d.err
    /\ DOMAIN d.cards = P
    /\ d.spies = {}
    /\ \E base \in catalog : \E odd \in catalog \ {base} :
          /\ Cardinality({p \in P : d.cards[p] = odd}) = 1
          /\ \A p \in P : d.cards[p] \in {base, odd}

\* C29: with a catalog of at least two cards a one_outlier_card deal has no
\* spy and exactly one player whose card differs from the single card of all
\* the others; with a catalog of one card the deal fails, and offline start
\* answers InvalidConfiguration and stores nothing.
OutlierDealShape ==
    /\ (HasGame /\ TheGame.resolved_random_mode = "one_outlier_card") =>
           /\ Cardinality(all_cards) >= 2
           /\ OneOutlierDeal([err |-> FALSE, spies |-> TheGame.spy_players,
                               cards |-> TheGame.cards_for_players],
                              1..TheGame.player_count, all_cards)
    /\ NothingLive =>
           \A n \in DealSeats :
               /\ \A d \in DealScenario(1..n, "one_outlier_card", all_cards, "one_outlier_card") :
                      IF Cardinality(all_cards) >= 2 THEN OneOutlierDeal(d, 1..n, all_cards)
                      ELSE d.err
               /\ Cardinality(all_cards) = 1 =>
                      \A out \in OfflineStart(offline_sessions, now, 1, "random", n,
                                               <<"one_outlier_card", "bogus">>, FALSE, None,
                                               TheSession, all_cards) :
                          out.res = InvalidConfiguration /\ out.sessions = EmptySessions

\* A three-seat session resolved to one_outlier_card, seat 2 the outlier.
SeatTwoIsOutlier ==
    /\ HasGame
    /\ TheGame.resolved_random_mode = "one_outlier_card"
    /\ TheGame.player_count = MIN_PLAYERS
    /\ TheGame.cards_for_players[2] = "card2"
    /\ TheGame.cards_for_players[1] = "card1"
    /\ TheGame.cards_for_players[3] = "card1"

\* C30: a room in state Waiting has turn_state Waiting and turns_completed
\* false, whatever joins, leaves, bot requests, status polls and heartbeats
\* it has served.
WaitingRoomTurnStateWaiting ==
    (HasRoom /\ TheRoom.state = ROOM_STATE_WAITING) =>
        /\ TheRoom.turn_state = TURN_STATE_WAITING
        /\ ~TheRoom.turns_completed

\* The responses to join and to the bot requests of every caller.
LobbyResponses ==
    UNION {{RoomJoin(rooms, now, TheCode, u), RoomBotsFill(rooms, now, TheCode, u),
            RoomBotsClear(rooms, now, TheCode, u)}
           \cup {RoomBotsAdd(rooms, now, TheCode, u, k) : k \in BotCountInputs} : u \in RealIds}

\* C31: a room that has left Waiting stays Started or Paused for as long as it
\* is in the table, and every join and every bot request on it is rejected.
GameNeverBackToLobby ==
    /\ []((HasRoom /\ TheRoom.state # ROOM_STATE_WAITING) =>
             /\ TheRoom.state \in {ROOM_STATE_STARTED, ROOM_STATE_PAUSED}
             /\ \A out \in LobbyResponses : out.res # OK)
    /\ [][(HasRoom /\ TheRoom.state # ROOM_STATE_WAITING /\ rooms'[TheCode] # NoRoom) =>
             rooms'[TheCode].state \in {ROOM_STATE_STARTED, ROOM_STATE_PAUSED}]_vars

\* A game paused by a leave, one seat short of its limit.
PausedGameWithFreeSeat ==
    /\ HasRoom
    /\ TheRoom.state = ROOM_STATE_PAUSED
    /\ Len(TheRoom.players) < TheRoom.player_limit
    /\ TheRoom.last_status_message = "left"

\* The participant whose turn it is in a room with a turn order, and the
\* participant who follows u in the order, the first one after the last.
TurnHolder(r) == r.players_order[r.current_turn_index + 1]
FollowerOf(order, u) == order[((IndexOf(order, u) + 1) % Len(order)) + 1]

\* r2 is room r after participant u was removed from it.
HolderAfterRemoval(r, u, r2) ==
    /\ r2.players_order = SelectSeq(r.players_order, LAMBDA p : p # u)
    /\ TurnHolder(r2) = IF u = TurnHolder(r) THEN FollowerOf(r.players_order, u)
                        ELSE TurnHolder(r)
    /\ u # TurnHolder(r) =>
           r2.current_turn_index =
               IF IndexOf(r.players_order, u) < r.current_turn_index
               THEN r.current_turn_index - 1 ELSE r.current_turn_index

\* C32: in a game with at least two seats in the turn order, removing a seat
\* other than the turn holder's leaves the turn with its holder (the index goes
\* down by one when the seat stood before the pointer and stays otherwise), and
\* removing the holder's seat gives the turn to the next seat in the order, the
\* first seat when the holder was last; the same holds for a leave request.
RemovalKeepsTurnHolder ==
    (HasRoom /\ TheRoom.state \in {ROOM_STATE_STARTED, ROOM_STATE_PAUSED}
             /\ Len(TheRoom.players_order) >= 2) =>
        \A u \in Range(TheRoom.players_order) :
            /\ HolderAfterRemoval(TheRoom, u, RemoveRoomParticipant(TheRoom, u, "left"))
            /\ LET out == RoomLeave(rooms, now, TheCode, u)
               IN out.rooms[TheCode] # NoRoom =>
                      HolderAfterRemoval(TheRoom, u, out.rooms[TheCode])

\* A running game of at least three seats with the turn on the last seat.
TurnOnLastOfThree ==
    /\ HasRoom
    /\ TheRoom.state = ROOM_STATE_STARTED
    /\ Len(TheRoom.players_order) >= 3
    /\ TheRoom.current_turn_index = Len(TheRoom.players_order) - 1

\* The times of the reads: now, one period later, and the last moment at which
\* a heartbeat sent now is still fresh.
ReadTimes ==
    {now, now + Seconds(MIN_TURN_TIME_SECONDS), now + Seconds(HEARTBEAT_STALE_SECONDS)}

\* The status and heartbeat responses at time t that keep the whole roster.
QuietReads(t) ==
    {out \in UNION {{RoomStatus(rooms, t, TheCode, u), RoomHeartbeat(rooms, t, TheCode, u)} :
                        u \in RealIds} :
        /\ out.res = OK
        /\ out.rooms[TheCode].players = TheRoom.players}

\* The turn clock of room r2 stands where it stood in room r.
SameTurnClock(r, r2) ==
    /\ r2.current_turn_index = r.current_turn_index
    /\ r2.turn_state = r.turn_state
    /\ r2.turn_started_at = r.turn_started_at

\* C33: a status or heartbeat read of a room, now or later, that removes no
\* participant leaves current_turn_index, turn_state and turn_started_at as
\* they were whenever the room is Paused, and changes them only in a Started
\* room whose turn_state is TurnLoopActive and whose turn is active.
PausedClockStands ==
    HasRoom =>
        \A t \in ReadTimes : \A out \in QuietReads(t) :
            /\ TheRoom.state = ROOM_STATE_PAUSED => SameTurnClock(TheRoom, out.rooms[TheCode])
            /\ ~SameTurnClock(TheRoom, out.rooms[TheCode]) =>
                   /\ TheRoom.state = ROOM_STATE_STARTED
                   /\ TheRoom.turn_state = TURN_STATE_ACTIVE
                   /\ TheRoom.turn_active

\* A game paused in its active turn loop, the pointer off the first seat, some
\* time after the start.
PausedInActiveLoop ==
    /\ HasRoom
    /\ TheRoom.state = ROOM_STATE_PAUSED
    /\ TheRoom.timer_enabled
    /\ TheRoom.turn_state = TURN_STATE_ACTIVE
    /\ TheRoom.current_turn_index > 0
    /\ now > 0

\* y is game x, whose loop began at time 0 on seat start_index, as a read at
\* the current time leaves it: the turn is on the seat a single read would find.
RoundRobinAt(x, y, start_index) ==
    LET period == Seconds(x.turn_time_seconds)
        n == Len(x.players_order)
    IN /\ y.current_turn_index = (start_index + (now \div period)) % n
       /\ x.current_turn_index = (start_index + (x.turn_started_at \div period)) % n
       /\ y.players_order = x.players_order

\* C34: with no pause, removal, finish or restart since the loop began at time
\* t0 = 0 on seat i0, a read at time t finds the turn on seat
\* (i0 + floor(t / T)) mod n, whatever reads were made before, in rooms and in
\* offline sessions.
PollScheduleIrrelevant ==
    /\ (HasRoom /\ RoomTurnRunning(TheRoom)) =>
           RoundRobinAt(TheRoom, AdvanceRoomTurn(TheRoom, now),
                        IndexOf(TheRoom.players_order, TheRoom.starter_user_id))
    /\ (HasGame /\ SessionTurnRunning(TheGame)) =>
           RoundRobinAt(TheGame,
                        OfflineTurnStatus(offline_sessions, now, TheSession,
                                          TheGame.owner_user_id).sessions[TheSession],
                        TheGame.starter_player_number - 1)

\* A room read once in its second turn and not again until its fourth.
ReadSkippedTwoTurns ==
    /\ HasRoom
    /\ RoomTurnRunning(TheRoom)
    /\ TheRoom.turn_started_at = Seconds(MIN_TURN_TIME_SECONDS)
    /\ now = Seconds(3 * MIN_TURN_TIME_SECONDS + 2)

\* C35: a turn start on a room or session whose loop is already running leaves
\* exactly what a status read at the same time leaves: turn_started_at stays
\* on the period boundary it was on or moves to the last boundary passed, never
\* to the time of the call, and the turn holder is the one the read finds.
TurnStartLikeRead ==
    /\ (HasRoom /\ RoomTurnRunning(TheRoom)) =>
           LET start == RoomTurnStart(rooms, now, TheCode, TheRoom.owner_user_id)
               read == RoomStatus(rooms, now, TheCode, TheRoom.owner_user_id)
               period == Seconds(TheRoom.turn_time_seconds)
           IN /\ read.res = OK
              /\ start.res = OK <=> read.rooms[TheCode].state = ROOM_STATE_STARTED
              /\ start.rooms = read.rooms
              /\ start.res = OK =>
                     /\ RoomTurnRunning(start.rooms[TheCode])
                     /\ start.rooms[TheCode].turn_started_at = period * (now \div period)
                     /\ TurnHolder(start.rooms[TheCode])
                            = TurnHolder(AdvanceRoomTurn(TheRoom, now))
    /\ (HasGame /\ SessionTurnRunning(TheGame)) =>
           LET start == OfflineTurnStart(offline_sessions, now, TheSession, TheGame.owner_user_id)
               read == OfflineTurnStatus(offline_sessions, now, TheSession, TheGame.owner_user_id)
               period == Seconds(TheGame.turn_time_seconds)
           IN /\ start.res = OK
              /\ start.sessions = read.sessions
              /\ start.sessions[TheSession].turn_started_at = period * (now \div period)

\* A running room seven seconds into its loop that was not read since the start.
UnreadLoopMidTurn ==
    /\ HasRoom
    /\ RoomTurnRunning(TheRoom)
    /\ TheRoom.turn_started_at = 0
    /\ now = Seconds(MIN_TURN_TIME_SECONDS + 2)

\* C36: in every reachable state of a room turn_active holds exactly when the
\* room is Started with turn_state TurnLoopActive, and turn_started_at is set
\* exactly when turn_active holds.
TurnActiveIffRunning ==
    HasRoom =>
        /\ TheRoom.turn_active <=>
               (TheRoom.state = ROOM_STATE_STARTED /\ TheRoom.turn_state = TURN_STATE_ACTIVE)
        /\ TheRoom.turn_started_at # None <=> TheRoom.turn_active

\* A game resumed in its active turn loop, the clock running again.
ResumedWithRunningClock ==
    /\ HasRoom
    /\ TheRoom.state = ROOM_STATE_STARTED
    /\ TheRoom.turn_state = TURN_STATE_ACTIVE
    /\ TheRoom.turn_active
    /\ TheRoom.turn_started_at = now
    /\ TheRoom.last_status_message = "resumed"

\* C37: in every reachable state of a Started or Paused room the roster, the
\* turn order and the role assignment name the same participants, the spies
\* and the heartbeats belong to roster members, and the starter, when set, is
\* a roster member.
RosterOrderRolesAgree ==
    (HasRoom /\ TheRoom.state \in {ROOM_STATE_STARTED, ROOM_STATE_PAUSED}) =>
        /\ Range(TheRoom.players_order) = Range(TheRoom.players)
        /\ DOMAIN TheRoom.cards_by_user = Range(TheRoom.players)
        /\ TheRoom.spy_user_ids \subseteq Range(TheRoom.players)
        /\ DOMAIN TheRoom.last_seen_by_user \subseteq Range(TheRoom.players)
        /\ TheRoom.starter_user_id # None =>
               TheRoom.starter_user_id \in Range(TheRoom.players)

\* A standard game paused after its spy left, two participants remaining.
GameAfterSpyLeft ==
    /\ HasRoom
    /\ TheRoom.state = ROOM_STATE_PAUSED
    /\ TheRoom.spy_user_ids = {}
    /\ Len(TheRoom.players) = 2
    /\ TheRoom.starter_user_id \in Range(TheRoom.players)

\* C38: the owner of every room in the table is a real participant of the
\* room's roster, and owner_name is that participant's display name.
OwnerIsRealMember ==
    \A c \in Live(rooms) :
        /\ IsRealId(rooms[c].owner_user_id)
        /\ ~EntryIsBot(rooms[c].owner_user_id)
        /\ Contains(rooms[c].players, rooms[c].owner_user_id)
        /\ rooms[c].owner_name = DisplayName(rooms[c].owner_user_id)

\* A Waiting room that its creator left and that a joiner now owns.
LobbyOwnedByJoiner ==
    /\ HasRoom
    /\ TheRoom.state = ROOM_STATE_WAITING
    /\ TheRoom.owner_user_id \notin CreatorIds
    /\ Contains(TheRoom.players, TheRoom.owner_user_id)
    /\ \A c \in CreatorIds : ~Contains(TheRoom.players, c)

\* d is a deal with one entry for each player of P and for nobody else, whose
\* spies are exactly the players without a secret.
SpiesAreTheCardless(d, P) ==
    /\ DOMAIN d.cards = P
    /\ d.spies \subseteq P
    /\ \A p \in P : p \in d.spies <=> d.cards[p] = NoCard

\* C39: in every mode and every resolved scenario the dealt assignment has
\* one secret entry for each input player and none for anyone else, and a
\* player is a spy exactly when the secret is absent; the role the reveal
\* shows agrees with membership in the spy set.
DealtRolesAgree ==
    /\ NothingLive =>
           \A n \in DealSeats : \A mode \in DealModes :
               \A d \in DealRoles(Seats(n), mode[1], mode[2], all_cards) :
                   ~d.err => SpiesAreTheCardless(d, 1..n)
    /\ HasGame =>
           /\ SpiesAreTheCardless([spies |-> TheGame.spy_players,
                                   cards |-> TheGame.cards_for_players],
                                  1..TheGame.player_count)
           /\ LET shown == OfflineReveal(offline_sessions, now, TheSession,
                                         TheGame.owner_user_id)
              IN /\ shown.res = OK
                 /\ shown.player_number \in 1..TheGame.player_count
                 /\ shown.role = "spy" <=> shown.player_number \in TheGame.spy_players
                 /\ shown.role = "card" <=> shown.card \in all_cards
                 /\ shown.card = TheGame.cards_for_players[shown.player_number]

\* A multi-spy session of four seats whose first seat is shown the spy role
\* while the third is not a spy.
FirstSeatShownSpy ==
    /\ HasGame
    /\ TheGame.resolved_random_mode = "multi_spy"
    /\ TheGame.player_count = 4
    /\ TheGame.spy_players = {1, 2}
    /\ OfflineReveal(offline_sessions, now, TheSession, TheGame.owner_user_id).role = "spy"

====
